---------------------------- MODULE Spec2Model ----------------------------
(***************************************************************************)
(* Judge-gated orchestrator: the judge lock (tools/lib/file_lock.py and    *)
(* tools-v1-backup/lib/file_lock.py), the judge entry points (main of      *)
(* tools/judge.py, tools-v1-backup/judge.py and v2/tools/judge.py), the    *)
(* verdict writers (write_critique, write_approval) and the integrity      *)
(* stage of judge_phase (tools/lib/protocol_guard.py).                     *)
(***************************************************************************)
EXTENDS Integers, FiniteSets, Sequences, TLC

VARIABLES
    platform,       \* "fcntl" | "nofcntl": whether `import fcntl` succeeds
    lockPath,       \* inode .repo/.judge.lock names, NoFile when the path is absent
    flockHolder,    \* inode -> processes whose descriptor holds flock on it
    pc,             \* process -> position in main / file_lock / judge_phase / writer
    entry,          \* process -> entry point of the judge it runs
    fd,             \* process -> inode its lock descriptor is open on, NoFile if none
    polls,          \* process -> failed lock attempts of the current acquisition
    lock_acquired,  \* process -> the lock_acquired flag of file_lock
    exc,            \* process -> class of the exception that left file_lock in
                    \* the current run: "none" | "TimeoutError" | "Exception"
    rc,             \* process -> <<exit status>> of its last main(), <<>> before
    phase_id,       \* process -> phase its run is judging
    files,          \* set of <<phase, name>>: files present in .repo/critiques
    orphans,        \* set of <<phase, name>>: temporary files no call will rename
    tmp_path,       \* process -> name its pending temporary file will replace
    faults,         \* number of verdict writes interrupted so far
    verdict,        \* process -> "none" | "approve" | "reject": verdict being written
    had,            \* phase -> TRUE once a verdict marker of the phase existed
    target_file,    \* content of the file safe_write_json is asked to write
    temp_path,      \* process -> content of the temporary file of its
                    \* safe_write_json call, "none" if it does not exist
    before,         \* content of target_file when the latest call began
    loaded,         \* process -> what its latest read of a stored record returned
    plan_yaml,      \* content of .repo/plan.yaml
    manifest_json,  \* content of .repo/protocol_manifest.json, "absent" if missing
    judge_py,       \* content of tools/judge.py
    lib_py,         \* content of the other manifest-listed file, "absent" if missing
    current_json,   \* .repo/briefs/CURRENT.json: its state and its recorded hashes
    state_json,     \* .repo/state/current.json, the pointer lib/state.py keeps
    changed_files,  \* files git reports as changed since the baseline
    phase_cfg,      \* gate inputs of the judged phase: its gates.drift entry,
                    \* scope.include / exclude, drift_rules.forbid_changes and
                    \* the list of changed paths handed to the scope functions
    binding_issues, \* judge_phase local: result of verify_phase_binding
    lock_issues,    \* judge_phase local: result of verify_protocol_lock
    issues,         \* issues handed to write_critique by the current run
    gate_results,   \* judge_phase local: gate name -> issues, for the gates run
    checks,         \* integrity checks the current run performed, in order
    raised,         \* gates whose run raised an exception in the current run
    verified        \* manifest-listed files whose hash the current run compared

vars == <<platform, lockPath, flockHolder, pc, entry, fd, polls, lock_acquired,
          exc,
          rc, phase_id, files, orphans, tmp_path, faults, verdict, had,
          target_file, temp_path, before, loaded,
          plan_yaml, manifest_json, judge_py, lib_py, current_json,
          state_json, changed_files, phase_cfg, binding_issues, lock_issues,
          issues, gate_results, checks, raised,
          verified>>

lockVars == <<platform, lockPath, flockHolder, fd, polls, lock_acquired, exc>>

writeVars == <<target_file, temp_path, before, loaded>>

verdictVars == <<files, orphans, tmp_path, faults, verdict, had, writeVars>>

envVars == <<plan_yaml, manifest_json, judge_py, lib_py, current_json,
             state_json, changed_files, phase_cfg>>

judgeVars == <<envVars, binding_issues, lock_issues, issues, gate_results,
               checks, raised, verified>>

----------------------------------------------------------------------------
(* Bounds *)

NumProcs == 2       \* concurrent judge invocations

MaxPolls == 1       \* failed polls after which the timeout has elapsed

MaxFaults == 2      \* interrupted verdict writes

Procs == 1..NumProcs

Inodes == 1..(NumProcs + 1)

NoFile == 0

Phases == {"P1", "P2"}

\* a pointer file that does not exist; a missing key of a pointer is <<>>
NoPointer == [state |-> "absent", phase_id |-> "none", plan_sha |-> <<>>,
              manifest_sha |-> <<>>, baseline_sha |-> <<>>]

\* what `git rev-parse HEAD` prints when a command runs: the commit HEAD is at
Revisions == {<<"r1">>, <<"r2">>}

\* a phase without gates.drift, scope or drift_rules, and no changed path
NoScope == [drift |-> "absent", allowed |-> 0, include |-> {}, exclude |-> {},
            forbid |-> {}, changed |-> <<>>, llm_enabled |-> FALSE, llm_dep |-> "ok"]

\* no read made yet
NoRead == [by |-> "none", was |-> "absent", value |-> <<>>]

EntryPoints == {"tools", "v1", "v2"}

----------------------------------------------------------------------------
(* The lock file: tools/lib/file_lock.py *)

\* An inode that neither the path nor any open descriptor refers to.
FreeInode == CHOOSE i \in Inodes :
                /\ i # lockPath
                /\ \A q \in Procs : fd[q] # i
                /\ \A j \in Inodes :
                      (j # lockPath /\ \A q \in Procs : fd[q] # j) => i <= j

\* open(lock_file, 'w') and open(file_path, 'a+'): create the file when absent.
OpenLockFile(p) ==
    IF lockPath = NoFile
    THEN /\ lockPath' = FreeInode
         /\ fd' = [fd EXCEPT ![p] = FreeInode]
    ELSE /\ lockPath' = lockPath
         /\ fd' = [fd EXCEPT ![p] = lockPath]

\* no safe_write_json call has run: the target does not exist yet
WriteIdle ==
    /\ target_file = "absent"
    /\ temp_path = [p \in Procs |-> "none"]
    /\ before = "absent"
    /\ loaded = [p \in Procs |-> NoRead]

\* main(): one judge invocation starts at one of the three entry points.
Main_Start(p) ==
    /\ pc[p] = "idle"
    /\ \E e \in EntryPoints, ph \in Phases :
          /\ e = "v1" => platform = "fcntl"
          /\ entry' = [entry EXCEPT ![p] = e]
          /\ phase_id' = [phase_id EXCEPT ![p] = ph]
          /\ pc' = [pc EXCEPT ![p] =
                 CASE e = "v2" -> "judging"
                   [] e = "v1" -> "v1_open"
                   [] e = "tools" /\ platform = "fcntl" -> "fl_open"
                   [] OTHER -> "fb_try"]
    /\ polls' = [polls EXCEPT ![p] = 0]
    /\ lock_acquired' = [lock_acquired EXCEPT ![p] = FALSE]
    /\ exc' = [exc EXCEPT ![p] = "none"]
    /\ rc' = [rc EXCEPT ![p] = <<>>]
    /\ UNCHANGED <<platform, lockPath, flockHolder, fd, verdictVars,
                   judgeVars>>

\* file_lock, fcntl branch: lock_fd = open(lock_file, 'w')
FileLock_Open(p) ==
    /\ pc[p] = "fl_open"
    /\ OpenLockFile(p)
    /\ pc' = [pc EXCEPT ![p] = "fl_try"]
    /\ UNCHANGED <<platform, flockHolder, entry, polls, lock_acquired, exc, rc,
                   phase_id, verdictVars, judgeVars>>

\* fcntl.flock(fd, LOCK_EX | LOCK_NB) succeeds: lock_acquired = True, then yield
FileLock_Acquire(p) ==
    /\ pc[p] = "fl_try"
    /\ flockHolder[fd[p]] = {}
    /\ flockHolder' = [flockHolder EXCEPT ![fd[p]] = {p}]
    /\ lock_acquired' = [lock_acquired EXCEPT ![p] = TRUE]
    /\ exc' = exc
    /\ pc' = [pc EXCEPT ![p] = "judging"]
    /\ UNCHANGED <<platform, lockPath, entry, fd, polls, rc, phase_id,
                   verdictVars, judgeVars>>

\* flock raises, the timeout has not elapsed: time.sleep(0.1) and retry
FileLock_Poll(p) ==
    /\ pc[p] = "fl_try"
    /\ flockHolder[fd[p]] # {}
    /\ polls[p] < MaxPolls
    /\ polls' = [polls EXCEPT ![p] = polls[p] + 1]
    /\ UNCHANGED <<platform, lockPath, flockHolder, pc, entry, fd,
                   lock_acquired, exc, rc, phase_id, verdictVars, judgeVars>>

\* mutant: the elapsed timeout surfaces as a generic exception
FileLock_TimeoutGeneric(p) ==
    /\ pc[p] = "fl_try"
    /\ flockHolder[fd[p]] # {}
    /\ polls[p] >= MaxPolls
    /\ exc' = [exc EXCEPT ![p] = "Exception"]
    /\ rc' = [rc EXCEPT ![p] = <<2>>]
    /\ pc' = [pc EXCEPT ![p] = "fl_unlock"]
    /\ UNCHANGED <<platform, lockPath, flockHolder, entry, fd, polls,
                   lock_acquired, phase_id, verdictVars, judgeVars>>

\* flock raises, the timeout has elapsed: raise TimeoutError, run the finally
FileLock_Timeout(p) ==
    /\ pc[p] = "fl_try"
    /\ flockHolder[fd[p]] # {}
    /\ polls[p] >= MaxPolls
    /\ exc' = [exc EXCEPT ![p] = "TimeoutError"]
    /\ rc' = [rc EXCEPT ![p] = <<2>>]
    /\ pc' = [pc EXCEPT ![p] = "fl_unlock"]
    /\ UNCHANGED <<platform, lockPath, flockHolder, entry, fd, polls,
                   lock_acquired, phase_id, verdictVars, judgeVars>>

\* finally: if lock_acquired and lock_fd: fcntl.flock(fd, LOCK_UN)
FileLock_Unlock(p) ==
    /\ pc[p] = "fl_unlock"
    /\ flockHolder' = IF lock_acquired[p] /\ p \in flockHolder[fd[p]]
                      THEN [flockHolder EXCEPT ![fd[p]] = @ \ {p}]
                      ELSE flockHolder
    /\ pc' = [pc EXCEPT ![p] = "fl_close"]
    /\ UNCHANGED <<platform, lockPath, entry, fd, polls, lock_acquired, exc, rc,
                   phase_id, verdictVars, judgeVars>>

\* finally: if lock_fd: lock_fd.close()
FileLock_Close(p) ==
    /\ pc[p] = "fl_close"
    /\ flockHolder' = IF p \in flockHolder[fd[p]]
                      THEN [flockHolder EXCEPT ![fd[p]] = @ \ {p}]
                      ELSE flockHolder
    /\ fd' = [fd EXCEPT ![p] = NoFile]
    /\ pc' = [pc EXCEPT ![p] = "fl_unlink"]
    /\ UNCHANGED <<platform, lockPath, entry, polls, lock_acquired, exc, rc,
                   phase_id, verdictVars, judgeVars>>

\* finally: if lock_file.exists(): lock_file.unlink()  -- whoever ran the finally
FileLock_Unlink(p) ==
    /\ pc[p] = "fl_unlink"
    /\ lockPath' = NoFile
    /\ pc' = [pc EXCEPT ![p] = "idle"]
    /\ UNCHANGED <<platform, flockHolder, entry, fd, polls, lock_acquired, exc,
                   rc, phase_id, verdictVars, judgeVars>>

\* file_lock, ImportError branch: lock_file.open('x') creates the file
Fallback_Acquire(p) ==
    /\ pc[p] = "fb_try"
    /\ lockPath = NoFile
    /\ lockPath' = FreeInode
    /\ lock_acquired' = [lock_acquired EXCEPT ![p] = TRUE]
    /\ exc' = exc
    /\ pc' = [pc EXCEPT ![p] = "judging"]
    /\ UNCHANGED <<platform, flockHolder, entry, fd, polls, rc, phase_id,
                   verdictVars, judgeVars>>

\* FileExistsError, the timeout has not elapsed: time.sleep(0.1) and retry
Fallback_Poll(p) ==
    /\ pc[p] = "fb_try"
    /\ lockPath # NoFile
    /\ polls[p] < MaxPolls
    /\ polls' = [polls EXCEPT ![p] = polls[p] + 1]
    /\ UNCHANGED <<platform, lockPath, flockHolder, pc, entry, fd,
                   lock_acquired, exc, rc, phase_id, verdictVars, judgeVars>>

\* FileExistsError, the timeout has elapsed: raise TimeoutError; the finally
\* does nothing because lock_acquired is False
Fallback_Timeout(p) ==
    /\ pc[p] = "fb_try"
    /\ lockPath # NoFile
    /\ polls[p] >= MaxPolls
    /\ exc' = [exc EXCEPT ![p] = "TimeoutError"]
    /\ rc' = [rc EXCEPT ![p] = <<2>>]
    /\ pc' = [pc EXCEPT ![p] = "idle"]
    /\ UNCHANGED <<platform, lockPath, flockHolder, entry, fd, polls,
                   lock_acquired, phase_id, verdictVars, judgeVars>>

\* mutant: the finally of the fallback leaves the lock file in place
Fallback_ReleaseKeepsFile(p) ==
    /\ pc[p] = "fb_unlink"
    /\ pc' = [pc EXCEPT ![p] = "idle"]
    /\ UNCHANGED <<platform, lockPath, flockHolder, entry, fd, polls,
                   lock_acquired, exc, rc, phase_id, verdictVars, judgeVars>>

\* finally: if lock_acquired: if lock_file.exists(): lock_file.unlink()
Fallback_Release(p) ==
    /\ pc[p] = "fb_unlink"
    /\ lockPath' = NoFile
    /\ pc' = [pc EXCEPT ![p] = "idle"]
    /\ UNCHANGED <<platform, flockHolder, entry, fd, polls, lock_acquired, exc,
                   rc, phase_id, verdictVars, judgeVars>>

----------------------------------------------------------------------------
(* The lock file: tools-v1-backup/lib/file_lock.py *)

\* lock_file = open(file_path, 'a+')
AcquireFileLock_Open(p) ==
    /\ pc[p] = "v1_open"
    /\ OpenLockFile(p)
    /\ pc' = [pc EXCEPT ![p] = "v1_try"]
    /\ UNCHANGED <<platform, flockHolder, entry, polls, lock_acquired, exc, rc,
                   phase_id, verdictVars, judgeVars>>

\* fcntl.flock(fd, lock_flags | LOCK_NB) succeeds: break, then yield
AcquireFileLock_Acquire(p) ==
    /\ pc[p] = "v1_try"
    /\ flockHolder[fd[p]] = {}
    /\ flockHolder' = [flockHolder EXCEPT ![fd[p]] = {p}]
    /\ lock_acquired' = [lock_acquired EXCEPT ![p] = TRUE]
    /\ exc' = exc
    /\ pc' = [pc EXCEPT ![p] = "judging"]
    /\ UNCHANGED <<platform, lockPath, entry, fd, polls, rc, phase_id,
                   verdictVars, judgeVars>>

\* OSError, the timeout has not elapsed: time.sleep(0.1) and retry
AcquireFileLock_Poll(p) ==
    /\ pc[p] = "v1_try"
    /\ flockHolder[fd[p]] # {}
    /\ polls[p] < MaxPolls
    /\ polls' = [polls EXCEPT ![p] = polls[p] + 1]
    /\ UNCHANGED <<platform, lockPath, flockHolder, pc, entry, fd,
                   lock_acquired, exc, rc, phase_id, verdictVars, judgeVars>>

\* OSError, the timeout has elapsed: raise TimeoutError, run the finally
AcquireFileLock_Timeout(p) ==
    /\ pc[p] = "v1_try"
    /\ flockHolder[fd[p]] # {}
    /\ polls[p] >= MaxPolls
    /\ exc' = [exc EXCEPT ![p] = "TimeoutError"]
    /\ rc' = [rc EXCEPT ![p] = <<2>>]
    /\ pc' = [pc EXCEPT ![p] = "v1_release"]
    /\ UNCHANGED <<platform, lockPath, flockHolder, entry, fd, polls,
                   lock_acquired, phase_id, verdictVars, judgeVars>>

\* finally: fcntl.flock(fd, LOCK_UN); lock_file.close()  -- the file stays
AcquireFileLock_Release(p) ==
    /\ pc[p] = "v1_release"
    /\ flockHolder' = IF p \in flockHolder[fd[p]]
                      THEN [flockHolder EXCEPT ![fd[p]] = @ \ {p}]
                      ELSE flockHolder
    /\ fd' = [fd EXCEPT ![p] = NoFile]
    /\ pc' = [pc EXCEPT ![p] = "idle"]
    /\ UNCHANGED <<platform, lockPath, entry, polls, lock_acquired, exc, rc,
                   phase_id, verdictVars, judgeVars>>

----------------------------------------------------------------------------
(* main(): judge_phase inside the guarded scope *)

\* Where the guarded scope of p's entry point ends.
ScopeExit(p) ==
    CASE entry[p] = "v2" -> "idle"
      [] entry[p] = "v1" -> "v1_release"
      [] entry[p] = "tools" /\ platform = "fcntl" -> "fl_unlock"
      [] OTHER -> "fb_unlink"

\* return judge_phase(phase_id): the evaluation ends with exit status 0, 1 or 2,
\* or raises and main's `except Exception` returns 2
Main_JudgeReturns(p) ==
    /\ pc[p] = "judging"
    /\ \E r \in {0, 1, 2}, x \in {"none", "Exception"} :
          /\ x = "Exception" => r = 2
          /\ rc' = [rc EXCEPT ![p] = <<r>>]
          /\ exc' = [exc EXCEPT ![p] = x]
    /\ pc' = [pc EXCEPT ![p] = ScopeExit(p)]
    /\ UNCHANGED <<platform, lockPath, flockHolder, entry, fd, polls,
                   lock_acquired, phase_id, verdictVars, judgeVars>>

----------------------------------------------------------------------------
(* safe_write_json of tools-v1-backup/lib/file_lock.py: a temporary file   *)
(* beside the target, json.dump + flush + fsync, then os.replace. rc holds *)
(* the outcome of the call: <<0>> returned, <<2>> raised, <<>> no outcome. *)

\* the data argument of a call
WriteData == {"d1", "d2"}

SafeWritePcs == {"sw_tmp", "sw_dump", "sw_replace"}

\* everything a safe_write_json step leaves alone
SafeWriteFrame == UNCHANGED <<lockVars, entry, phase_id, files, tmp_path,
                              verdict, had, judgeVars>>

\* safe_write_json(file_path, data) is called; file_path.parent.mkdir(...)
SafeWriteJson_Call(p) ==
    /\ \A q \in Procs : pc[q] = "idle"
    /\ pc' = [pc EXCEPT ![p] = "sw_tmp"]
    /\ rc' = [rc EXCEPT ![p] = <<>>]
    /\ before' = target_file
    /\ UNCHANGED <<target_file, temp_path, loaded, orphans, faults>>
    /\ SafeWriteFrame

\* with tempfile.NamedTemporaryFile(dir=file_path.parent, delete=False)
SafeWriteJson_MkTemp(p) ==
    /\ pc[p] = "sw_tmp"
    /\ temp_path' = [temp_path EXCEPT ![p] = "empty"]
    /\ pc' = [pc EXCEPT ![p] = "sw_dump"]
    /\ UNCHANGED <<target_file, before, loaded, rc, orphans, faults>>
    /\ SafeWriteFrame

\* NamedTemporaryFile raises: no temporary file exists, the error propagates
SafeWriteJson_MkTempFails(p) ==
    /\ pc[p] = "sw_tmp"
    /\ pc' = [pc EXCEPT ![p] = "idle"]
    /\ rc' = [rc EXCEPT ![p] = <<2>>]
    /\ UNCHANGED <<target_file, temp_path, before, loaded, orphans, faults>>
    /\ SafeWriteFrame

\* mutant: the data is written straight into the target
SafeWriteJson_DumpInPlace(p) ==
    /\ pc[p] = "sw_dump"
    /\ \E data \in WriteData :
          /\ temp_path' = [temp_path EXCEPT ![p] = data]
          /\ target_file' = data
    /\ pc' = [pc EXCEPT ![p] = "sw_replace"]
    /\ UNCHANGED <<before, loaded, rc, orphans, faults>>
    /\ SafeWriteFrame

\* json.dump(data, temp_file); temp_file.flush(); os.fsync(...)
SafeWriteJson_Dump(p) ==
    /\ pc[p] = "sw_dump"
    /\ \E data \in WriteData :
          /\ temp_path' = [temp_path EXCEPT ![p] = data]
          /\ target_file' = target_file
    /\ pc' = [pc EXCEPT ![p] = "sw_replace"]
    /\ UNCHANGED <<before, loaded, rc, orphans, faults>>
    /\ SafeWriteFrame

\* except Exception: temp_path.unlink(missing_ok=True); raise
SafeWriteJson_DumpFails(p) ==
    /\ pc[p] = "sw_dump"
    /\ temp_path' = [temp_path EXCEPT ![p] = "none"]
    /\ pc' = [pc EXCEPT ![p] = "idle"]
    /\ rc' = [rc EXCEPT ![p] = <<2>>]
    /\ UNCHANGED <<target_file, before, loaded, orphans, faults>>
    /\ SafeWriteFrame

\* os.replace(temp_path, file_path): the target takes the temporary file's
\* content in one step
SafeWriteJson_Replace(p) ==
    /\ pc[p] = "sw_replace"
    /\ target_file' = temp_path[p]
    /\ temp_path' = [temp_path EXCEPT ![p] = "none"]
    /\ pc' = [pc EXCEPT ![p] = "idle"]
    /\ rc' = [rc EXCEPT ![p] = <<0>>]
    /\ UNCHANGED <<before, loaded, orphans, faults>>
    /\ SafeWriteFrame

\* os.replace raises: temp_path.unlink(missing_ok=True); raise
SafeWriteJson_ReplaceFails(p) ==
    /\ pc[p] = "sw_replace"
    /\ temp_path' = [temp_path EXCEPT ![p] = "none"]
    /\ pc' = [pc EXCEPT ![p] = "idle"]
    /\ rc' = [rc EXCEPT ![p] = <<2>>]
    /\ UNCHANGED <<target_file, before, loaded, orphans, faults>>
    /\ SafeWriteFrame

\* the process is killed inside the call: no handler runs and the temporary
\* file, if one exists, stays beside the target
SafeWriteJson_Killed(p) ==
    /\ pc[p] \in SafeWritePcs
    /\ faults < MaxFaults
    /\ faults' = faults + 1
    /\ orphans' = IF temp_path[p] = "none" THEN orphans
                  ELSE orphans \cup {<<"json", temp_path[p]>>}
    /\ temp_path' = [temp_path EXCEPT ![p] = "none"]
    /\ pc' = [pc EXCEPT ![p] = "idle"]
    /\ UNCHANGED <<target_file, before, loaded, rc>>
    /\ SafeWriteFrame

----------------------------------------------------------------------------
(* The verdict writers: write_critique / write_approval of tools/judge.py  *)
(* and _write_critique / _write_approval of v2/tools/judge.py              *)

\* readers (review_phase, next_phase) look at <phase>.OK and <phase>.md
ApprovalMarker(ph) == <<ph, "OK">> \in files

RejectionMarker(ph) == <<ph, "md">> \in files

HasMarker(ph) == ApprovalMarker(ph) \/ RejectionMarker(ph)

\* everything a writer step leaves alone besides files, tmp_path, pc and had
WriterFrame == UNCHANGED <<lockVars, entry, rc, phase_id, orphans, faults,
                           verdict, judgeVars>>

\* tempfile.NamedTemporaryFile(dir=CRITIQUES_DIR, delete=False): content written
\* to a sibling temporary file
MkTemp(p, at, name, next) ==
    /\ pc[p] = at
    /\ tmp_path' = [tmp_path EXCEPT ![p] = name]
    /\ pc' = [pc EXCEPT ![p] = next]
    /\ UNCHANGED <<files, had, writeVars>>
    /\ WriterFrame

\* mutant: the rename removes a target that already exists
Replace_Toggle(p, at, name, next) ==
    /\ pc[p] = at
    /\ files' = IF <<phase_id[p], name>> \in files
                THEN files \ {<<phase_id[p], name>>}
                ELSE files \cup {<<phase_id[p], name>>}
    /\ tmp_path' = [tmp_path EXCEPT ![p] = "none"]
    /\ UNCHANGED writeVars
    /\ had' = [had EXCEPT ![phase_id[p]] = TRUE]
    /\ pc' = [pc EXCEPT ![p] = next]
    /\ WriterFrame

\* os.replace(tmp_path, target): the target appears with the new content
Replace(p, at, name, next) ==
    /\ pc[p] = at
    /\ files' = files \cup {<<phase_id[p], name>>}
    /\ tmp_path' = [tmp_path EXCEPT ![p] = "none"]
    /\ UNCHANGED writeVars
    /\ had' = [had EXCEPT ![phase_id[p]] = TRUE]
    /\ pc' = [pc EXCEPT ![p] = next]
    /\ WriterFrame

\* if f.exists(): f.unlink()
Unlink(p, at, name, next) ==
    /\ pc[p] = at
    /\ files' = files \ {<<phase_id[p], name>>}
    /\ pc' = [pc EXCEPT ![p] = next]
    /\ UNCHANGED <<tmp_path, had, writeVars>>
    /\ WriterFrame

\* a step that moves on without touching a file
Skip(p, at, next) ==
    /\ pc[p] = at
    /\ pc' = [pc EXCEPT ![p] = next]
    /\ UNCHANGED <<files, tmp_path, had, writeVars>>
    /\ WriterFrame

\* mutant: write_critique deletes the approval before it writes the critique
WriteCritique_UnlinkOkFirst(p) == Unlink(p, "wc_tmp_md", "OK", "wc_replace_md")

\* write_critique: markdown critique to a temporary file, judge.py:1417-1426
WriteCritique_TmpMd(p) == MkTemp(p, "wc_tmp_md", "md", "wc_replace_md")

\* write_critique: os.replace(tmp_path, critique_file), judge.py:1429
WriteCritique_ReplaceMd(p) == Replace(p, "wc_replace_md", "md", "wc_tmp_json")

\* write_critique: JSON critique to a temporary file, judge.py:1453-1461
WriteCritique_TmpJson(p) == MkTemp(p, "wc_tmp_json", "json", "wc_replace_json")

\* write_critique: os.replace(tmp_path, json_file), judge.py:1464
WriteCritique_ReplaceJson(p) ==
    Replace(p, "wc_replace_json", "json", "wc_unlink_ok")

\* write_critique: if ok_file.exists(): ok_file.unlink(), judge.py:1469-1470
WriteCritique_UnlinkOk(p) == Unlink(p, "wc_unlink_ok", "OK", "wc_unlink_ok_json")

\* mutant: write_critique leaves the JSON approval in place
WriteCritique_KeepOkJson(p) == Skip(p, "wc_unlink_ok_json", "written")

\* write_critique: if ok_json_file.exists(): ok_json_file.unlink(), 1471-1472
WriteCritique_UnlinkOkJson(p) ==
    Unlink(p, "wc_unlink_ok_json", "OK.json", "written")

\* write_approval: .OK content to a temporary file, judge.py:1491-1500
WriteApproval_TmpOk(p) == MkTemp(p, "wa_tmp_ok", "OK", "wa_replace_ok")

\* write_approval: os.replace(tmp_path, ok_file), judge.py:1503
WriteApproval_ReplaceOk(p) == Replace(p, "wa_replace_ok", "OK", "wa_tmp_ok_json")

\* write_approval: JSON approval to a temporary file, judge.py:1515-1524
WriteApproval_TmpOkJson(p) ==
    MkTemp(p, "wa_tmp_ok_json", "OK.json", "wa_replace_ok_json")

\* write_approval: os.replace(tmp_path, ok_json_file), judge.py:1527
WriteApproval_ReplaceOkJson(p) ==
    Replace(p, "wa_replace_ok_json", "OK.json", "wa_unlink_md")

\* mutant: write_approval leaves the critique in place
WriteApproval_KeepMd(p) == Skip(p, "wa_unlink_md", "wa_unlink_json")

\* write_approval: if critique_file.exists(): critique_file.unlink(), 1532-1533
WriteApproval_UnlinkMd(p) == Unlink(p, "wa_unlink_md", "md", "wa_unlink_json")

\* write_approval: if critique_json_file.exists(): ...unlink(), 1534-1535
WriteApproval_UnlinkJson(p) == Unlink(p, "wa_unlink_json", "json", "written")

\* v2 _write_critique: critique_file.write_text(content), v2 judge.py:202
V2WriteCritique_WriteMd(p) == Replace(p, "v2c_write_md", "md", "v2c_unlink_ok")

\* v2 _write_critique: if ok_file.exists(): ok_file.unlink(), v2 judge.py:207-209
V2WriteCritique_UnlinkOk(p) == Unlink(p, "v2c_unlink_ok", "OK", "written")

\* v2 _write_approval: ok_file.write_text(content), v2 judge.py:219
V2WriteApproval_WriteOk(p) == Replace(p, "v2a_write_ok", "OK", "v2a_unlink_md")

\* v2 _write_approval: if critique_file.exists(): ...unlink(), v2 judge.py:224-226
V2WriteApproval_UnlinkMd(p) == Unlink(p, "v2a_unlink_md", "md", "written")

\* first position of the writer a run with this entry point and verdict calls
WriterEntry(e, v) ==
    CASE e = "v2" /\ v = "reject" -> "v2c_write_md"
      [] e = "v2" /\ v = "approve" -> "v2a_write_ok"
      [] e # "v2" /\ v = "reject" -> "wc_tmp_md"
      [] OTHER -> "wa_tmp_ok"

WriterPcs == {"wc_tmp_md", "wc_replace_md", "wc_tmp_json", "wc_replace_json",
              "wc_unlink_ok", "wc_unlink_ok_json",
              "wa_tmp_ok", "wa_replace_ok", "wa_tmp_ok_json",
              "wa_replace_ok_json", "wa_unlink_md", "wa_unlink_json",
              "v2c_write_md", "v2c_unlink_ok", "v2a_write_ok", "v2a_unlink_md"}

\* judge_phase: if all_issues: write_critique(...) else: write_approval(...),
\* called by one run at a time
Verdict_Call(p) ==
    /\ \A q \in Procs : pc[q] = "idle"
    /\ \E ph \in Phases, v \in {"approve", "reject"} :
          /\ phase_id' = [phase_id EXCEPT ![p] = ph]
          /\ verdict' = [verdict EXCEPT ![p] = v]
          /\ pc' = [pc EXCEPT ![p] = WriterEntry(entry[p], v)]
    /\ rc' = [rc EXCEPT ![p] = <<>>]
    /\ UNCHANGED <<lockVars, entry, files, orphans, tmp_path, faults, had, writeVars,
                   judgeVars>>

\* judge_phase: return 1 after write_critique, return 0 after write_approval
Verdict_Return(p) ==
    /\ pc[p] = "written"
    /\ rc' = [rc EXCEPT ![p] = IF verdict[p] = "approve" THEN <<0>> ELSE <<1>>]
    /\ verdict' = [verdict EXCEPT ![p] = "none"]
    /\ pc' = [pc EXCEPT ![p] = "idle"]
    /\ UNCHANGED <<lockVars, entry, phase_id, files, orphans, tmp_path, faults,
                   had, writeVars, judgeVars>>

\* the process dies, or a file operation raises, inside the writer: the call
\* stops where it is and a pending temporary file stays behind
Verdict_Fault(p) ==
    /\ pc[p] \in WriterPcs
    /\ faults < MaxFaults
    /\ faults' = faults + 1
    /\ orphans' = IF tmp_path[p] = "none" THEN orphans
                  ELSE orphans \cup {<<phase_id[p], tmp_path[p]>>}
    /\ tmp_path' = [tmp_path EXCEPT ![p] = "none"]
    /\ rc' = [rc EXCEPT ![p] = <<2>>]
    /\ verdict' = [verdict EXCEPT ![p] = "none"]
    /\ pc' = [pc EXCEPT ![p] = "idle"]
    /\ UNCHANGED <<lockVars, entry, phase_id, files, had, writeVars, judgeVars>>

WriterStep(p) ==
    \/ WriteCritique_TmpMd(p)
    \/ WriteCritique_ReplaceMd(p)
    \/ WriteCritique_TmpJson(p)
    \/ WriteCritique_ReplaceJson(p)
    \/ WriteCritique_UnlinkOk(p)
    \/ WriteCritique_UnlinkOkJson(p)
    \/ WriteApproval_TmpOk(p)
    \/ WriteApproval_ReplaceOk(p)
    \/ WriteApproval_TmpOkJson(p)
    \/ WriteApproval_ReplaceOkJson(p)
    \/ WriteApproval_UnlinkMd(p)
    \/ WriteApproval_UnlinkJson(p)
    \/ V2WriteCritique_WriteMd(p)
    \/ V2WriteCritique_UnlinkOk(p)
    \/ V2WriteApproval_WriteOk(p)
    \/ V2WriteApproval_UnlinkMd(p)

----------------------------------------------------------------------------

\* No judge is running and the lock file does not exist.
ProcsIdle ==
    /\ lockPath = NoFile
    /\ flockHolder = [i \in Inodes |-> {}]
    /\ pc = [p \in Procs |-> "idle"]
    /\ entry = [p \in Procs |-> "tools"]
    /\ fd = [p \in Procs |-> NoFile]
    /\ polls = [p \in Procs |-> 0]
    /\ lock_acquired = [p \in Procs |-> FALSE]
    /\ exc = [p \in Procs |-> "none"]
    /\ rc = [p \in Procs |-> <<>>]
    /\ phase_id = [p \in Procs |-> "P1"]
    /\ tmp_path = [p \in Procs |-> "none"]
    /\ verdict = [p \in Procs |-> "none"]
    /\ faults = 0
    /\ orphans = {}

\* No run has computed anything yet.
RunLocalsEmpty ==
    /\ binding_issues = <<>>
    /\ lock_issues = <<>>
    /\ issues = <<>>
    /\ gate_results = <<>>
    /\ checks = <<>>
    /\ raised = {}
    /\ verified = {}

\* A freshly installed workspace: protocol files as the manifest lists them,
\* no phase pointer, no verdict.
WorkspaceFresh ==
    /\ plan_yaml = "locked"
    /\ manifest_json = "m_full"
    /\ judge_py = "j1"
    /\ lib_py = "l1"
    /\ current_json = NoPointer
    /\ state_json = NoPointer
    /\ changed_files = {}
    /\ phase_cfg = NoScope
    /\ files = {}
    /\ had = [ph \in Phases |-> FALSE]
    /\ WriteIdle

Init ==
    /\ platform \in {"fcntl", "nofcntl"}
    /\ ProcsIdle
    /\ RunLocalsEmpty
    /\ WorkspaceFresh

Next ==
    \E p \in Procs :
        \/ Main_Start(p)
        \/ FileLock_Open(p)
        \/ FileLock_Acquire(p)
        \/ FileLock_Poll(p)
        \/ FileLock_Timeout(p)
        \/ FileLock_Unlock(p)
        \/ FileLock_Close(p)
        \/ FileLock_Unlink(p)
        \/ Fallback_Acquire(p)
        \/ Fallback_Poll(p)
        \/ Fallback_Timeout(p)
        \/ Fallback_Release(p)
        \/ AcquireFileLock_Open(p)
        \/ AcquireFileLock_Acquire(p)
        \/ AcquireFileLock_Poll(p)
        \/ AcquireFileLock_Timeout(p)
        \/ AcquireFileLock_Release(p)
        \/ Main_JudgeReturns(p)

Spec == Init /\ [][Next]_vars

----------------------------------------------------------------------------
(* The integrity guard: tools/lib/protocol_guard.py *)

\* hashlib.sha256(file.read_bytes()).hexdigest(): equal exactly on equal content
sha256(text) == <<"sha256", text>>

JudgeRel == "tools/judge.py"

LibRel == "tools/phasectl.py"

\* a file under the protected globs that the manifest does not list
ExtraRel == "tools/lib/gates.py"

\* any(fnmatch(changed_file, glob) for glob in protected_globs)
Protected(f) == f \in {JudgeRel, LibRel, ExtraRel}

\* the characters of a path, what iterating over a str yields
Chars(f) ==
    CASE f = "src/app.py" -> <<"s", "r", "c", "/", "a", "p", "p", ".", "p", "y">>
      [] f = "run.py" -> <<"r", "u", "n", ".", "p", "y">>
      [] f = "README.md" -> <<"R", "E", "A", "D", "M", "E", ".", "m", "d">>
      [] f = "tools/judge.py" ->
           <<"t", "o", "o", "l", "s", "/", "j", "u", "d", "g", "e", ".", "p", "y">>
      [] f = "tools/phasectl.py" ->
           <<"t", "o", "o", "l", "s", "/", "p", "h", "a", "s", "e", "c", "t", "l",
             ".", "p", "y">>
      [] f = "tools/lib/gates.py" ->
           <<"t", "o", "o", "l", "s", "/", "l", "i", "b", "/", "g", "a", "t", "e",
             "s", ".", "p", "y">>

SeqRange(s) == {s[i] : i \in DOMAIN s}

\* the plans .repo/plan.yaml may hold; "absent" when missing or not YAML
PlanTexts == {"locked", "maint", "nolock", "invalid", "short", "absent"}

\* load_plan() returns the plan instead of sys.exit(1)
PlanLoads(plan) == plan # "absent"

\* validate_plan(plan) returns no error
PlanValid(plan) == plan # "invalid"

\* the phase ids get_phase finds in the plan
PlanPhases(plan) == IF plan = "short" THEN {"P1"} ELSE Phases

\* plan.get("plan", {}).get("protocol_lock", {}) is not empty
ProtocolLock(plan) == plan \in {"locked", "maint", "short"}

\* set(lock.get("allow_in_phases", []))
AllowInPhases(plan) == IF plan = "maint" THEN {"P2"} ELSE {}

ManifestTexts == {"m_full", "m_nojudge"}

\* manifest.get("files", {}): protected path -> recorded hash
ManifestFiles(manifest) ==
    IF manifest = "m_full"
    THEN [f \in {JudgeRel, LibRel} |->
             IF f = JudgeRel THEN sha256("j1") ELSE sha256("l1")]
    ELSE [f \in {LibRel} |-> sha256("l1")]

\* the manifest's paths in the order the loop visits them
ManifestOrder(manifest) ==
    IF manifest = "m_full" THEN <<JudgeRel, LibRel>> ELSE <<LibRel>>

\* the live content of a protected file, "absent" when it does not exist
LiveText(f) == IF f = JudgeRel THEN judge_py ELSE lib_py

\* the phase pointers .repo/briefs/CURRENT.json may hold; a missing key is <<>>
Pointers ==
    [state : {"absent", "malformed"}, phase_id : {"none"}, plan_sha : {<<>>},
     manifest_sha : {<<>>}, baseline_sha : {<<>>}]
      \cup
    {[state |-> "ok", phase_id |-> "P1", plan_sha |-> b[1], manifest_sha |-> b[2],
      baseline_sha |-> <<"r1">>] :
        b \in {<<<<>>, <<>>>>,
               <<sha256("locked"), sha256("m_full")>>,
               <<sha256("nolock"), <<>>>>,
               <<<<>>, sha256("m_nojudge")>>}}

\* the issues of the integrity checks: <<message, file>>
PlanGone == <<"Plan file missing", ".repo/plan.yaml">>

PlanChanged == <<"Plan changed mid-phase", ".repo/plan.yaml">>

ManifestGone == <<"Manifest file missing", ".repo/protocol_manifest.json">>

ManifestChanged == <<"Manifest changed mid-phase", ".repo/protocol_manifest.json">>

ManifestMissing == <<"Protocol manifest missing", ".repo/protocol_manifest.json">>

JudgeTamper == <<"JUDGE TAMPER DETECTED", JudgeRel>>

\* verify_phase_binding(repo_root, current)
verify_phase_binding(current) ==
    (IF current.plan_sha = <<>> THEN <<>>
     ELSE IF plan_yaml = "absent" THEN <<PlanGone>>
     ELSE IF sha256(plan_yaml) # current.plan_sha
     THEN <<PlanChanged>> ELSE <<>>)
      \o
    (IF current.manifest_sha = <<>> THEN <<>>
     ELSE IF manifest_json = "absent" THEN <<ManifestGone>>
     ELSE IF sha256(manifest_json) # current.manifest_sha
     THEN <<ManifestChanged>> ELSE <<>>)

\* verify_protocol_lock gets as far as the judge's self-check
SelfCheckRuns(plan) ==
    /\ ProtocolLock(plan)
    /\ manifest_json # "absent"
    /\ JudgeRel \in DOMAIN ManifestFiles(manifest_json)

\* the self-check finds actual_hash != expected_hash
JudgeTamperDetected(plan) ==
    /\ SelfCheckRuns(plan)
    /\ sha256(judge_py) # ManifestFiles(manifest_json)[JudgeRel]

\* verify_protocol_lock gets as far as the loop over the manifest's files
ManifestLoopRuns(plan, ph) ==
    /\ ProtocolLock(plan)
    /\ manifest_json # "absent"
    /\ ~JudgeTamperDetected(plan)
    /\ ph \notin AllowInPhases(plan)

\* one pass of the loop body: the issue for rel_path, if any
FileIssue(f) ==
    IF LiveText(f) = "absent" THEN <<"Protocol file missing", f>>
    ELSE IF sha256(LiveText(f)) # ManifestFiles(manifest_json)[f]
    THEN <<"Protocol file modified", f>>
    ELSE <<>>

\* mutant: the loop over the manifest stops after its first file
FileIssues_FirstOnly(order) ==
    IF order = <<>> \/ FileIssue(Head(order)) = <<>> THEN <<>>
    ELSE <<FileIssue(Head(order))>>

RECURSIVE FileIssues(_)
\* for rel_path, expected_hash in files.items(): ...
FileIssues(order) ==
    IF order = <<>> THEN <<>>
    ELSE (IF FileIssue(Head(order)) = <<>> THEN <<>>
          ELSE <<FileIssue(Head(order))>>) \o FileIssues(Tail(order))

\* f"Protected file changed: {changed_file}"
ProtectedChanged(f) == <<"Protected file changed", f>>

RECURSIVE ScanChanged(_, _)
\* for changed_file in changed_files: a protected file that the manifest does
\* not list is reported; changed is what the name changed_files is bound to
ScanChanged(order, changed) ==
    IF order = <<>> THEN <<>>
    ELSE (IF /\ Head(order) \in changed
             /\ Protected(Head(order))
             /\ Head(order) \notin DOMAIN ManifestFiles(manifest_json)
          THEN <<ProtectedChanged(Head(order))>> ELSE <<>>)
           \o ScanChanged(Tail(order), changed)

\* mutant: the scan runs over the list of changed paths
ChangedIssues_OverPaths(order) == ScanChanged(order, changed_files)

\* The try block of verify_protocol_lock: `changed_files, warnings =
\* get_changed_files(...)` unpacks the list of tools/lib/git_ops.py. Unless the
\* list has exactly two entries this raises ValueError, which `except
\* Exception: pass` swallows; with two entries changed_files is one of the two
\* paths and the loop runs over its characters (those of either path below).
ChangedIssues(order) ==
    IF Cardinality(changed_files) # 2 THEN <<>>
    ELSE ScanChanged(order, UNION {SeqRange(Chars(f)) : f \in changed_files})

\* the manifest-listed files whose hash verify_protocol_lock compares in the loop
FilesVerified(plan, ph) ==
    IF ManifestLoopRuns(plan, ph) THEN DOMAIN ManifestFiles(manifest_json)
    ELSE {}

\* mutant: the allow-list is consulted before the judge's self-check
verify_protocol_lock_AllowFirst(plan, ph) ==
    IF ~ProtocolLock(plan) THEN <<>>
    ELSE IF manifest_json = "absent" THEN <<ManifestMissing>>
    ELSE IF ph \in AllowInPhases(plan) THEN <<>>
    ELSE IF JudgeTamperDetected(plan) THEN <<JudgeTamper>>
    ELSE FileIssues(ManifestOrder(manifest_json))
           \o ChangedIssues(<<JudgeRel, LibRel, ExtraRel>>)

\* verify_protocol_lock(repo_root, plan, phase_id, baseline_sha)
verify_protocol_lock(plan, ph) ==
    IF ~ProtocolLock(plan) THEN <<>>
    ELSE IF manifest_json = "absent" THEN <<ManifestMissing>>
    ELSE IF JudgeTamperDetected(plan) THEN <<JudgeTamper>>
    ELSE IF ph \in AllowInPhases(plan) THEN <<>>
    ELSE FileIssues(ManifestOrder(manifest_json))
           \o ChangedIssues(<<JudgeRel, LibRel, ExtraRel>>)

\* the integrity checks verify_protocol_lock performs, in order
LockChecks(plan, ph) ==
    (IF SelfCheckRuns(plan) THEN <<"self">> ELSE <<>>)
      \o (IF ManifestLoopRuns(plan, ph) THEN <<"manifest">> ELSE <<>>)

----------------------------------------------------------------------------
(* judge_phase of tools/judge.py *)

\* the gates of judge_phase in the order it runs them; lint and llm_review
\* only when the phase enables them
GateOrder == <<"artifacts", "tests", "lint", "docs", "drift", "llm_review">>

OptionalGates == {"lint", "llm_review"}

Gates == {"artifacts", "tests", "lint", "docs", "drift", "llm_review"}

RECURSIVE AllIssues(_, _)
\* all_issues.extend(...) over the gates run, in gate order
AllIssues(results, order) ==
    IF order = <<>> THEN <<>>
    ELSE (IF Head(order) \in DOMAIN results THEN results[Head(order)] ELSE <<>>)
           \o AllIssues(results, Tail(order))

\* everything a judge_phase step leaves alone besides pc, rc and its locals
JudgeFrame == UNCHANGED <<lockVars, entry, phase_id, files, orphans, tmp_path,
                          faults, had, writeVars, envVars>>

\* main(): judge_phase(phase_id) is entered, by one run at a time
JudgePhase_Start(p) ==
    /\ \A q \in Procs : pc[q] = "idle"
    /\ entry[p] # "v2"
    /\ \E ph \in Phases : phase_id' = [phase_id EXCEPT ![p] = ph]
    /\ pc' = [pc EXCEPT ![p] = "jp_validate"]
    /\ rc' = [rc EXCEPT ![p] = <<>>]
    /\ binding_issues' = <<>>
    /\ lock_issues' = <<>>
    /\ issues' = <<>>
    /\ gate_results' = <<>>
    /\ checks' = <<>>
    /\ raised' = {}
    /\ verified' = {}
    /\ UNCHANGED <<lockVars, entry, verdictVars, envVars>>

\* mutant: the validation errors are printed and the run goes on
JudgePhase_PlanUnchecked(p) ==
    /\ pc[p] = "jp_validate"
    /\ pc' = [pc EXCEPT ![p] = "jp_binding"]
    /\ UNCHANGED <<rc, verdict, binding_issues, lock_issues, issues, gate_results,
                   raised, checks, verified>>
    /\ JudgeFrame

\* plan = load_plan(); validate_plan(plan); get_phase(plan, phase_id):
\* sys.exit(1) when the plan does not load, return 2 on validation errors or
\* an unknown phase
JudgePhase_ValidatePlan(p) ==
    /\ pc[p] = "jp_validate"
    /\ IF ~PlanLoads(plan_yaml)
       THEN /\ pc' = [pc EXCEPT ![p] = "idle"]
            /\ rc' = [rc EXCEPT ![p] = <<1>>]
       ELSE IF PlanValid(plan_yaml) /\ phase_id[p] \in PlanPhases(plan_yaml)
       THEN /\ pc' = [pc EXCEPT ![p] = "jp_binding"]
            /\ rc' = rc
       ELSE /\ pc' = [pc EXCEPT ![p] = "idle"]
            /\ rc' = [rc EXCEPT ![p] = <<2>>]
    /\ UNCHANGED <<verdict, binding_issues, lock_issues, issues, gate_results, raised,
                   checks, verified>>
    /\ JudgeFrame

\* mutant: the binding issues are computed and the run goes on regardless
JudgePhase_BindingIgnored(p) ==
    /\ pc[p] = "jp_binding"
    /\ IF current_json.state = "ok"
       THEN /\ binding_issues' = verify_phase_binding(current_json)
            /\ checks' = Append(checks, "binding")
       ELSE /\ binding_issues' = <<>>
            /\ checks' = checks
    /\ pc' = [pc EXCEPT ![p] = "jp_lock"]
    /\ UNCHANGED <<rc, verdict, issues, lock_issues, gate_results, raised, verified>>
    /\ JudgeFrame

\* if current_file.exists(): binding_issues = verify_phase_binding(...);
\* if binding_issues: write_critique(phase_id, binding_issues); return 1
\* (a malformed pointer is tolerated)
JudgePhase_CheckBinding(p) ==
    /\ pc[p] = "jp_binding"
    /\ IF current_json.state = "ok"
       THEN /\ binding_issues' = verify_phase_binding(current_json)
            /\ checks' = Append(checks, "binding")
       ELSE /\ binding_issues' = <<>>
            /\ checks' = checks
    /\ IF binding_issues' # <<>>
       THEN /\ issues' = binding_issues'
            /\ verdict' = [verdict EXCEPT ![p] = "reject"]
            /\ pc' = [pc EXCEPT ![p] = WriterEntry(entry[p], "reject")]
       ELSE /\ issues' = issues
            /\ verdict' = verdict
            /\ pc' = [pc EXCEPT ![p] = "jp_lock"]
    /\ UNCHANGED <<rc, lock_issues, gate_results, raised, verified>>
    /\ JudgeFrame

\* mutant: the protocol-lock issues are computed and the gates run regardless
JudgePhase_LockIgnored(p) ==
    /\ pc[p] = "jp_lock"
    /\ lock_issues' = verify_protocol_lock(plan_yaml, phase_id[p])
    /\ checks' = checks \o LockChecks(plan_yaml, phase_id[p])
    /\ verified' = FilesVerified(plan_yaml, phase_id[p])
    /\ pc' = [pc EXCEPT ![p] = "jp_gates"]
    /\ UNCHANGED <<rc, verdict, issues, binding_issues, gate_results, raised>>
    /\ JudgeFrame

\* lock_issues = verify_protocol_lock(...);
\* if lock_issues: write_critique(phase_id, lock_issues); return 1
JudgePhase_VerifyLock(p) ==
    /\ pc[p] = "jp_lock"
    /\ lock_issues' = verify_protocol_lock(plan_yaml, phase_id[p])
    /\ checks' = checks \o LockChecks(plan_yaml, phase_id[p])
    /\ verified' = FilesVerified(plan_yaml, phase_id[p])
    /\ IF lock_issues' # <<>>
       THEN /\ issues' = lock_issues'
            /\ verdict' = [verdict EXCEPT ![p] = "reject"]
            /\ pc' = [pc EXCEPT ![p] = WriterEntry(entry[p], "reject")]
       ELSE /\ issues' = issues
            /\ verdict' = verdict
            /\ pc' = [pc EXCEPT ![p] = "jp_gates"]
    /\ UNCHANGED <<rc, binding_issues, gate_results, raised>>
    /\ JudgeFrame

\* an issue a gate reports
GateIssue(g) == <<g, "issue">>

\* f"Gate {gate_name} failed: {str(e)}"
GateFailed(g) == <<"Gate failed", g>>

RECURSIVE GatesBefore(_, _)
\* the gates of order that come before the first gate of stop
GatesBefore(order, stop) ==
    IF order = <<>> \/ Head(order) \in stop THEN {}
    ELSE {Head(order)} \cup GatesBefore(Tail(order), stop)

RECURSIVE FirstOf(_, _)
\* the first gate of order that is in stop, as a set of at most one gate
FirstOf(order, stop) ==
    IF order = <<>> THEN {}
    ELSE IF Head(order) \in stop THEN {Head(order)}
    ELSE FirstOf(Tail(order), stop)

\* mutant: only the issues of the gates that always run decide the verdict
RunInline_Lenient(p, order, mandatory, optional) ==
    \E enabled \in SUBSET optional :
      \E failing \in SUBSET (mandatory \cup enabled) :
        /\ gate_results' = [g \in mandatory \cup enabled |->
                              IF g \in failing THEN <<GateIssue(g)>> ELSE <<>>]
        /\ raised' = {}
        /\ issues' = AllIssues(gate_results', order)
        /\ verdict' = [verdict EXCEPT ![p] =
                         IF failing \cap mandatory # {} THEN "reject" ELSE "approve"]
        /\ pc' = [pc EXCEPT ![p] = WriterEntry(entry[p], verdict'[p])]
        /\ rc' = rc

\* Gates called one after the other from judge_phase itself: each result goes
\* into gate_results and all_issues; an exception of a gate leaves judge_phase
\* and main() returns 2; otherwise
\* if all_issues: write_critique(...) else: write_approval(...)
RunInline(p, order, mandatory, optional) ==
    \E enabled \in SUBSET optional :
      \E raising \in {{}} \cup {{g} : g \in mandatory \cup enabled} :
        LET run == mandatory \cup enabled
            done == GatesBefore(order, raising) \cap run
        IN
          \E failing \in SUBSET done :
            /\ gate_results' = [g \in done |->
                                  IF g \in failing THEN <<GateIssue(g)>> ELSE <<>>]
            /\ raised' = FirstOf(order, raising)
            /\ IF raised' = {}
               THEN /\ issues' = AllIssues(gate_results', order)
                    /\ verdict' = [verdict EXCEPT ![p] =
                                     IF issues' # <<>> THEN "reject" ELSE "approve"]
                    /\ pc' = [pc EXCEPT ![p] = WriterEntry(entry[p], verdict'[p])]
                    /\ rc' = rc
               ELSE /\ issues' = issues
                    /\ verdict' = verdict
                    /\ pc' = [pc EXCEPT ![p] = "idle"]
                    /\ rc' = [rc EXCEPT ![p] = <<2>>]

\* judge_phase of tools/judge.py from "Run all checks" to the verdict
JudgePhase_RunGates(p) ==
    /\ pc[p] = "jp_gates"
    /\ entry[p] = "tools"
    /\ RunInline(p, GateOrder, Gates \ OptionalGates, OptionalGates)
    \* `changed_files, warnings = get_changed_files(...)` ahead of the docs gate
    \* raises ValueError unless exactly two paths changed
    /\ Cardinality(changed_files) # 2
          => raised' # {} /\ raised' \subseteq {"artifacts", "tests", "lint", "docs"}
    /\ UNCHANGED <<binding_issues, lock_issues, checks, verified>>
    /\ JudgeFrame

\* GATE_REGISTRY of tools-v1-backup, in insertion order
V1GateOrder == GateOrder \o <<"integrity">>

\* the gates of tools-v1-backup whose is_enabled reads the phase
V1OptionalGates == {"lint", "drift", "llm_review"}

\* the mark in raised of an exception raised by the is_enabled of gate g
IsEnabledFault(g) ==
    CASE g = "lint" -> "lint.is_enabled"
      [] g = "drift" -> "drift.is_enabled"
      [] OTHER -> "llm_review.is_enabled"

\* run_gates(phase, plan, context): every enabled gate runs; an exception of
\* gate.run becomes the single issue of that gate. gate.is_enabled(phase) is
\* called outside the try: when the gates entry of lint, drift or llm_review
\* is not a mapping its .get raises, the exception leaves run_gates and
\* judge_phase with the results made so far, and main() returns 2
run_gates(p) ==
    \/ \E enabled \in SUBSET V1OptionalGates :
         \E raising \in SUBSET ({"artifacts", "tests", "docs", "integrity"} \cup enabled) :
           LET run == {"artifacts", "tests", "docs", "integrity"} \cup enabled
           IN
             \E failing \in SUBSET (run \ (raising \cup {"integrity"})) :
               /\ gate_results' =
                     [g \in run |->
                         IF g \in raising THEN <<GateFailed(g)>>
                         ELSE IF g = "integrity"
                         THEN verify_protocol_lock(plan_yaml, phase_id[p])
                         ELSE IF g \in failing THEN <<GateIssue(g)>> ELSE <<>>]
               /\ raised' = raising \cap run
               /\ issues' = AllIssues(gate_results', V1GateOrder)
               /\ verdict' = [verdict EXCEPT ![p] =
                                IF issues' # <<>> THEN "reject" ELSE "approve"]
               /\ pc' = [pc EXCEPT ![p] = WriterEntry(entry[p], verdict'[p])]
               /\ rc' = rc
    \/ \E g \in V1OptionalGates :
         /\ raised' = {IsEnabledFault(g)}
         /\ gate_results' = gate_results
         /\ issues' = issues
         /\ verdict' = verdict
         /\ pc' = [pc EXCEPT ![p] = "idle"]
         /\ rc' = [rc EXCEPT ![p] = <<2>>]

\* judge_phase of tools-v1-backup/judge.py from "Run all checks" to the verdict
V1JudgePhase_RunGates(p) ==
    /\ pc[p] = "jp_gates"
    /\ entry[p] = "v1"
    /\ run_gates(p)
    /\ UNCHANGED <<binding_issues, lock_issues, checks, verified>>
    /\ JudgeFrame

\* the gates of v2/tools/judge.py in the order judge_phase runs them
V2GateOrder ==
    <<"artifacts", "tests", "lint", "docs", "scope", "llm_review", "orient">>

V2OptionalGates == {"lint", "scope", "llm_review"}

\* get_current_phase(REPO_ROOT) returns a pointer that names the phase
CurrentPhaseIs(ph) == state_json.state = "ok" /\ state_json.phase_id = ph

\* main() of v2/tools/judge.py: judge_phase(phase_id) is entered
V2JudgePhase_Start(p) ==
    /\ \A q \in Procs : pc[q] = "idle"
    /\ entry[p] = "v2"
    /\ \E ph \in Phases : phase_id' = [phase_id EXCEPT ![p] = ph]
    /\ pc' = [pc EXCEPT ![p] = "v2_load"]
    /\ rc' = [rc EXCEPT ![p] = <<>>]
    /\ binding_issues' = <<>>
    /\ lock_issues' = <<>>
    /\ issues' = <<>>
    /\ gate_results' = <<>>
    /\ checks' = <<>>
    /\ raised' = {}
    /\ verified' = {}
    /\ UNCHANGED <<lockVars, entry, verdictVars, envVars>>

\* load_plan, get_phase: PlanError -> return 2; the pointer must name the
\* phase, else return 2
V2JudgePhase_LoadPlan(p) ==
    /\ pc[p] = "v2_load"
    /\ IF /\ PlanLoads(plan_yaml) /\ PlanValid(plan_yaml)
          /\ phase_id[p] \in PlanPhases(plan_yaml)
          /\ CurrentPhaseIs(phase_id[p])
       THEN /\ pc' = [pc EXCEPT ![p] = "v2_gates"]
            /\ rc' = rc
       ELSE /\ pc' = [pc EXCEPT ![p] = "idle"]
            /\ rc' = [rc EXCEPT ![p] = <<2>>]
    /\ UNCHANGED <<verdict, binding_issues, lock_issues, issues, gate_results,
                   raised, checks, verified>>
    /\ JudgeFrame

\* judge_phase of v2/tools/judge.py from "Run all gates" to the verdict
V2JudgePhase_RunGates(p) ==
    /\ pc[p] = "v2_gates"
    /\ RunInline(p, V2GateOrder, {"artifacts", "tests", "docs", "orient"},
                 V2OptionalGates)
    /\ UNCHANGED <<binding_issues, lock_issues, checks, verified>>
    /\ JudgeFrame

\* The verdict files a completed run of the installed judge leaves for a phase.
MarkerSets(e, ph) ==
    IF e = "v2"
    THEN { {}, {<<ph, "OK">>}, {<<ph, "md">>} }
    ELSE { {}, {<<ph, "OK">>, <<ph, "OK.json">>}, {<<ph, "md">>, <<ph, "json">>} }

\* The verdict writers alone, one call at a time, over every verdict history.
InitVerdict ==
    /\ platform = "fcntl"
    /\ lockPath = NoFile
    /\ flockHolder = [i \in Inodes |-> {}]
    /\ pc = [p \in Procs |-> "idle"]
    /\ \E e \in {"tools", "v2"} : entry = [p \in Procs |-> e]
    /\ fd = [p \in Procs |-> NoFile]
    /\ polls = [p \in Procs |-> 0]
    /\ lock_acquired = [p \in Procs |-> FALSE]
    /\ exc = [p \in Procs |-> "none"]
    /\ rc = [p \in Procs |-> <<>>]
    /\ phase_id = [p \in Procs |-> "P1"]
    /\ tmp_path = [p \in Procs |-> "none"]
    /\ verdict = [p \in Procs |-> "none"]
    /\ faults = 0
    /\ orphans = {}
    /\ RunLocalsEmpty
    /\ plan_yaml = "locked"
    /\ manifest_json = "m_full"
    /\ judge_py = "j1"
    /\ lib_py = "l1"
    /\ current_json = NoPointer
    /\ state_json = NoPointer
    /\ changed_files = {}
    /\ phase_cfg = NoScope
    /\ \E f1 \in MarkerSets(entry[1], "P1"), f2 \in MarkerSets(entry[1], "P2") :
          files = f1 \cup f2
    /\ had = [ph \in Phases |-> HasMarker(ph)]
    /\ WriteIdle

NextVerdict ==
    \E p \in {1} :
        \/ Verdict_Call(p)
        \/ WriterStep(p)
        \/ Verdict_Return(p)
        \/ Verdict_Fault(p)

SpecVerdict == InitVerdict /\ [][NextVerdict]_vars

\* One judge run at a time of tools/judge.py, over every state of the
\* protocol files and of the phase pointer.
InitJudge ==
    /\ platform = "fcntl"
    /\ ProcsIdle
    /\ RunLocalsEmpty
    /\ plan_yaml \in PlanTexts
    /\ manifest_json \in ManifestTexts \cup {"absent"}
    /\ judge_py \in {"j1", "j2"}
    /\ lib_py \in {"l1", "l2", "absent"}
    /\ current_json \in Pointers
    /\ state_json = NoPointer
    /\ changed_files \in {{}, {LibRel, ExtraRel}}
    /\ phase_cfg = NoScope
    /\ files = {}
    /\ had = [ph \in Phases |-> FALSE]
    /\ WriteIdle

NextJudge ==
    \E p \in {1} :
        \/ JudgePhase_Start(p)
        \/ JudgePhase_ValidatePlan(p)
        \/ JudgePhase_CheckBinding(p)
        \/ JudgePhase_VerifyLock(p)
        \/ JudgePhase_RunGates(p)
        \/ WriterStep(p)
        \/ Verdict_Return(p)

SpecJudge == InitJudge /\ [][NextJudge]_vars

\* One judge run at a time of one of the three judges, in a workspace whose
\* protocol files are intact and whose pointer names P1, with a valid or an
\* invalid plan, over every outcome of the gates.
InitGates ==
    /\ platform = "fcntl"
    /\ lockPath = NoFile
    /\ flockHolder = [i \in Inodes |-> {}]
    /\ pc = [p \in Procs |-> "idle"]
    /\ \E e \in EntryPoints : entry = [p \in Procs |-> e]
    /\ fd = [p \in Procs |-> NoFile]
    /\ polls = [p \in Procs |-> 0]
    /\ lock_acquired = [p \in Procs |-> FALSE]
    /\ exc = [p \in Procs |-> "none"]
    /\ rc = [p \in Procs |-> <<>>]
    /\ phase_id = [p \in Procs |-> "P1"]
    /\ tmp_path = [p \in Procs |-> "none"]
    /\ verdict = [p \in Procs |-> "none"]
    /\ faults = 0
    /\ orphans = {}
    /\ RunLocalsEmpty
    /\ plan_yaml \in {"locked", "invalid"}
    /\ manifest_json = "m_full"
    /\ judge_py = "j1"
    /\ lib_py = "l1"
    /\ current_json = [state |-> "ok", phase_id |-> "P1",
                       plan_sha |-> sha256("locked"),
                       manifest_sha |-> sha256("m_full"),
                       baseline_sha |-> <<"r1">>]
    /\ state_json = [state |-> "ok", phase_id |-> "P1",
                     plan_sha |-> sha256("locked"), manifest_sha |-> <<>>,
                     baseline_sha |-> <<"r1">>]
    /\ changed_files \in {{}, {LibRel, ExtraRel}}
    /\ phase_cfg = NoScope
    /\ files = {}
    /\ had = [ph \in Phases |-> FALSE]
    /\ WriteIdle

NextGates ==
    \E p \in {1} :
        \/ JudgePhase_Start(p)
        \/ JudgePhase_ValidatePlan(p)
        \/ JudgePhase_CheckBinding(p)
        \/ JudgePhase_VerifyLock(p)
        \/ JudgePhase_RunGates(p)
        \/ V1JudgePhase_RunGates(p)
        \/ V2JudgePhase_Start(p)
        \/ V2JudgePhase_LoadPlan(p)
        \/ V2JudgePhase_RunGates(p)
        \/ WriterStep(p)
        \/ Verdict_Return(p)

SpecGates == InitGates /\ [][NextGates]_vars

----------------------------------------------------------------------------
(* The phase pointer: tools/phasectl.py and tools/lib/state.py *)

\* plan.get("plan", {}).get("phases", []) as a list of phase ids
PhaseOrder(plan) == IF plan = "short" THEN <<"P1">> ELSE <<"P1", "P2">>

\* detect_plan_mismatch(): the pointer records a plan hash and the plan's
\* hash differs from it
detect_plan_mismatch ==
    /\ current_json.state = "ok"
    /\ current_json.plan_sha # <<>>
    /\ PlanLoads(plan_yaml)
    /\ sha256(plan_yaml) # current_json.plan_sha

\* if baseline_sha: current_data["baseline_sha"] = baseline_sha
\* if plan_path.exists(): current_data["plan_sha"] = sha256(plan_path)
\* if manifest_path.exists(): current_data["manifest_sha"] = sha256(manifest_path)
BoundPointer(ph, head) ==
    [state |-> "ok", phase_id |-> ph, baseline_sha |-> head,
     plan_sha |-> IF PlanLoads(plan_yaml) THEN sha256(plan_yaml) ELSE <<>>,
     manifest_sha |-> IF manifest_json # "absent" THEN sha256(manifest_json)
                      ELSE <<>>]

\* everything a phasectl command leaves alone besides rc and the pointer
PhasectlFrame == UNCHANGED <<lockVars, pc, entry, phase_id, verdictVars,
                             plan_yaml, manifest_json, judge_py, lib_py,
                             state_json, changed_files, phase_cfg, binding_issues,
                             lock_issues, issues, gate_results, checks, raised,
                             verified>>

\* phasectl.py start <phase>: discover_plan, then start_phase: return 1 on a
\* plan mismatch, a missing brief or a refused acknowledgment, else write the
\* pointer (phase_id, brief_path, status, timestamps, baseline_sha)
start_phase(p) ==
    /\ pc[p] = "idle"
    /\ \E ph \in Phases, briefs \in BOOLEAN, response \in BOOLEAN,
          head \in Revisions \cup {<<>>} :
          IF /\ PlanLoads(plan_yaml) /\ briefs
             /\ ~detect_plan_mismatch /\ response
          THEN /\ current_json' = [state |-> "ok", phase_id |-> ph,
                                   plan_sha |-> <<>>, manifest_sha |-> <<>>,
                                   baseline_sha |-> head]
               /\ rc' = [rc EXCEPT ![p] = <<0>>]
          ELSE /\ current_json' = current_json
               /\ rc' = [rc EXCEPT ![p] = <<1>>]
    /\ PhasectlFrame

\* phasectl.py reset <phase>: return 1 without a brief, a plan holding the
\* phase or a git HEAD, else write the pointer with the current hashes
reset_phase(p) ==
    /\ pc[p] = "idle"
    /\ \E ph \in Phases, brief \in BOOLEAN, head \in Revisions \cup {<<>>} :
          IF /\ brief /\ PlanLoads(plan_yaml)
             /\ ph \in PlanPhases(plan_yaml) /\ head # <<>>
          THEN /\ current_json' = BoundPointer(ph, head)
               /\ rc' = [rc EXCEPT ![p] = <<0>>]
          ELSE /\ current_json' = current_json
               /\ rc' = [rc EXCEPT ![p] = <<1>>]
    /\ PhasectlFrame

\* the phase after ph in the plan, as a sequence of at most one phase
NextOf(plan, ph) ==
    IF ph = "P1" /\ Len(PhaseOrder(plan)) > 1 THEN <<"P2">> ELSE <<>>

\* phasectl.py next, up to the lookup of the current phase in the plan:
\* return 1 without a readable pointer, on a plan mismatch or on an unknown
\* current phase; return 2 on an invalid plan
next_phase(p) ==
    /\ pc[p] = "idle"
    /\ IF current_json.state # "ok" \/ ~PlanLoads(plan_yaml)
          \/ detect_plan_mismatch
       THEN /\ rc' = [rc EXCEPT ![p] = <<1>>]
            /\ pc' = pc
       ELSE IF ~PlanValid(plan_yaml)
       THEN /\ rc' = [rc EXCEPT ![p] = <<2>>]
            /\ pc' = pc
       ELSE IF current_json.phase_id \notin PlanPhases(plan_yaml)
       THEN /\ rc' = [rc EXCEPT ![p] = <<1>>]
            /\ pc' = pc
       ELSE /\ rc' = [rc EXCEPT ![p] = <<>>]
            /\ pc' = [pc EXCEPT ![p] = "next_approval"]
    /\ UNCHANGED <<lockVars, entry, phase_id, verdictVars, judgeVars>>

\* mutant: a rejection marker beside the approval marker blocks the advance
next_phase_RejectionBlocks(p) ==
    /\ pc[p] = "next_approval"
    /\ IF /\ ApprovalMarker(current_json.phase_id)
          /\ ~RejectionMarker(current_json.phase_id)
       THEN /\ pc' = [pc EXCEPT ![p] = "next_advance"]
            /\ rc' = rc
       ELSE /\ pc' = [pc EXCEPT ![p] = "idle"]
            /\ rc' = [rc EXCEPT ![p] = <<1>>]
    /\ UNCHANGED <<lockVars, entry, phase_id, verdictVars, judgeVars>>

\* if not ok_file.exists(): "Phase not yet approved", return 1
next_phase_CheckApproval(p) ==
    /\ pc[p] = "next_approval"
    /\ IF ApprovalMarker(current_json.phase_id)
       THEN /\ pc' = [pc EXCEPT ![p] = "next_advance"]
            /\ rc' = rc
       ELSE /\ pc' = [pc EXCEPT ![p] = "idle"]
            /\ rc' = [rc EXCEPT ![p] = <<1>>]
    /\ UNCHANGED <<lockVars, entry, phase_id, verdictVars, judgeVars>>

\* the rest of next: return 0 at the last phase, 1 without the next brief,
\* else write the pointer of the next phase with baseline and current hashes
next_phase_Advance(p) ==
    /\ pc[p] = "next_advance"
    /\ \E next_brief \in BOOLEAN, head \in Revisions \cup {<<>>} :
          IF NextOf(plan_yaml, current_json.phase_id) = <<>>
          THEN /\ current_json' = current_json
               /\ rc' = [rc EXCEPT ![p] = <<0>>]
          ELSE IF ~next_brief
          THEN /\ current_json' = current_json
               /\ rc' = [rc EXCEPT ![p] = <<1>>]
          ELSE /\ current_json' =
                      BoundPointer(NextOf(plan_yaml, current_json.phase_id)[1],
                                   head)
               /\ rc' = [rc EXCEPT ![p] = <<0>>]
    /\ pc' = [pc EXCEPT ![p] = "idle"]
    /\ UNCHANGED <<lockVars, entry, phase_id, verdictVars, plan_yaml,
                   manifest_json, judge_py, lib_py, state_json, changed_files, phase_cfg,
                   binding_issues, lock_issues, issues, gate_results, checks,
                   raised, verified>>

\* phasectl.py review <phase>, up to the return of the judge subprocess:
\* return 1 on a plan mismatch, 2 on an invalid plan or a missing test
\* runner; else run the judge, which leaves an approval, a rejection or
\* nothing, or dies after writing its new marker and before unlinking the
\* opposite one
\* the verdict of the judge run that left these marker files, "none" for a run
\* that ended without writing one
JudgeWrote(left, ph) ==
    IF <<ph, "OK">> \in left THEN "approve"
    ELSE IF <<ph, "md">> \in left THEN "reject"
    ELSE "none"

review_phase(p) ==
    /\ pc[p] = "idle"
    /\ \E ph \in Phases, runner \in BOOLEAN, interrupted \in BOOLEAN :
        \E left \in MarkerSets("tools", ph) :
          IF ~PlanLoads(plan_yaml) \/ detect_plan_mismatch
          THEN /\ files' = files
               /\ rc' = [rc EXCEPT ![p] = <<1>>]
               /\ UNCHANGED <<pc, phase_id, verdict>>
          ELSE IF ~PlanValid(plan_yaml) \/ ~runner
          THEN /\ files' = files
               /\ rc' = [rc EXCEPT ![p] = <<2>>]
               /\ UNCHANGED <<pc, phase_id, verdict>>
          ELSE /\ files' = IF left = {} THEN files
                           ELSE IF interrupted THEN files \cup left
                           ELSE {f \in files : f[1] # ph} \cup left
               /\ rc' = [rc EXCEPT ![p] = <<>>]
               /\ pc' = [pc EXCEPT ![p] = "review_report"]
               /\ phase_id' = [phase_id EXCEPT ![p] = ph]
               /\ verdict' = [verdict EXCEPT ![p] = JudgeWrote(left, ph)]
    /\ UNCHANGED writeVars
    /\ had' = [ph \in Phases |-> had[ph] \/ <<ph, "OK">> \in files'
                                         \/ <<ph, "md">> \in files']
    /\ UNCHANGED <<lockVars, entry, orphans, tmp_path, faults, judgeVars>>

\* mutant: the critique is looked for before the approval
review_phase_CritiqueFirst(p) ==
    /\ pc[p] = "review_report"
    /\ rc' = [rc EXCEPT ![p] =
                IF RejectionMarker(phase_id[p]) THEN <<1>>
                ELSE IF ApprovalMarker(phase_id[p]) THEN <<0>>
                ELSE <<2>>]
    /\ pc' = [pc EXCEPT ![p] = "idle"]
    /\ UNCHANGED <<lockVars, entry, phase_id, verdictVars, judgeVars>>

\* if ok_file.exists(): return 0; elif critique_file.exists(): return 1;
\* else: return 2
review_phase_Report(p) ==
    /\ pc[p] = "review_report"
    /\ rc' = [rc EXCEPT ![p] =
                IF ApprovalMarker(phase_id[p]) THEN <<0>>
                ELSE IF RejectionMarker(phase_id[p]) THEN <<1>>
                ELSE <<2>>]
    /\ pc' = [pc EXCEPT ![p] = "idle"]
    /\ UNCHANGED <<lockVars, entry, phase_id, verdictVars, judgeVars>>

\* set_current_phase(phase_id): write .repo/state/current.json with phase_id,
\* started_at, baseline_sha and plan_sha ("unknown" without a plan)
set_current_phase(p) ==
    /\ pc[p] = "idle"
    /\ \E ph \in Phases, head \in Revisions \cup {<<"unknown">>} :
          state_json' = [state |-> "ok", phase_id |-> ph,
                         baseline_sha |-> head,
                         plan_sha |-> IF PlanLoads(plan_yaml)
                                      THEN sha256(plan_yaml)
                                      ELSE <<"unknown">>,
                         manifest_sha |-> <<>>]
    /\ UNCHANGED <<lockVars, pc, entry, rc, phase_id, verdictVars, plan_yaml,
                   manifest_json, judge_py, lib_py, current_json,
                   changed_files, phase_cfg, binding_issues, lock_issues, issues,
                   gate_results, checks, raised, verified>>

\* the plan or the manifest is edited between two commands
Workspace_Edit ==
    /\ \A p \in Procs : pc[p] = "idle"
    /\ plan_yaml' \in {"locked", "nolock", "short", "invalid"}
    /\ manifest_json' \in {"m_full", "absent"}
    /\ UNCHANGED <<lockVars, pc, entry, rc, phase_id, verdictVars, judge_py,
                   lib_py, current_json, state_json, changed_files, phase_cfg,
                   binding_issues, lock_issues, issues, gate_results, checks,
                   raised, verified>>

\* The phasectl.py commands that touch the phase pointer, one at a time, in a workspace
\* that starts without a pointer and without verdicts.
InitPhase ==
    /\ platform = "fcntl"
    /\ ProcsIdle
    /\ RunLocalsEmpty
    /\ WorkspaceFresh

NextPhase ==
    \/ \E p \in {1} :
          \/ start_phase(p)
          \/ reset_phase(p)
          \/ next_phase(p)
          \/ next_phase_CheckApproval(p)
          \/ next_phase_Advance(p)
          \/ review_phase(p)
          \/ review_phase_Report(p)
    \/ Workspace_Edit

SpecPhase == InitPhase /\ [][NextPhase]_vars

\* The pointer of tools/lib/state.py, a file of its own that phasectl.py
\* neither reads nor writes, under the same edits of the workspace.
NextState ==
    \/ \E p \in {1} : set_current_phase(p)
    \/ Workspace_Edit

SpecState == InitPhase /\ [][NextState]_vars

\* Calls of safe_write_json, one at a time, each of which may fail at any of
\* its steps or be killed.
InitWrite ==
    /\ platform = "fcntl"
    /\ ProcsIdle
    /\ RunLocalsEmpty
    /\ WorkspaceFresh

NextWrite ==
    \E p \in Procs :
        \/ SafeWriteJson_Call(p)
        \/ SafeWriteJson_MkTemp(p)
        \/ SafeWriteJson_MkTempFails(p)
        \/ SafeWriteJson_Dump(p)
        \/ SafeWriteJson_DumpFails(p)
        \/ SafeWriteJson_Replace(p)
        \/ SafeWriteJson_ReplaceFails(p)
        \/ SafeWriteJson_Killed(p)

SpecWrite == InitWrite /\ [][NextWrite]_vars

----------------------------------------------------------------------------
(* Scope of a phase: tools/lib/scope.py and the drift gates of the judges *)

\* paths of the workspace git may report as changed
ScopePaths == {"src/app.py", "run.py", "README.md"}

\* gitwildmatch patterns a plan may list under scope or drift_rules
Patterns == {"src/**", "*.py", "*.md"}

MaxChanged == 2
MaxAllowed == 1

\* the forms of the gates.drift entry of a phase: no entry, {}, an entry with
\* only allowed_out_of_scope_changes, and entries with enabled: true / false
DriftConfigs == {"absent", "empty", "limit", "enabled", "disabled"}

\* pathspec.PathSpec.from_lines('gitwildmatch', [pat]).match_file(path): the
\* paths of ScopePaths a pattern matches; no single character matches any
MatchSet(pat) ==
    CASE pat = "src/**" -> {"src/app.py"}
      [] pat = "*.py" -> {"src/app.py", "run.py"}
      [] pat = "*.md" -> {"README.md"}

\* sorted(set(paths))
PathOrder == <<"README.md", "run.py", "src/app.py">>

Sorted(paths) == SelectSeq(PathOrder, LAMBDA f : f \in paths)

matches_pattern(path, patterns) == \E pat \in patterns : path \in MatchSet(pat)

\* mutant: a path that is both included and excluded is dropped from the result
classify_files_DropsExcluded(changed, include, exclude) ==
    [in_scope |-> SelectSeq(changed, LAMBDA f :
                      matches_pattern(f, include) /\ ~matches_pattern(f, exclude)),
     out_of_scope |-> SelectSeq(changed, LAMBDA f : ~matches_pattern(f, include))]

\* mutant: the exclude patterns are not consulted
classify_files_IgnoresExclude(changed, include, exclude) ==
    [in_scope |-> SelectSeq(changed, LAMBDA f : matches_pattern(f, include)),
     out_of_scope |-> SelectSeq(changed, LAMBDA f : ~matches_pattern(f, include))]

\* classify_files(changed_files, include_patterns, exclude_patterns):
\* if included and not excluded: in_scope.append(f) else: out_of_scope.append(f)
classify_files(changed, include, exclude) ==
    [in_scope |-> SelectSeq(changed, LAMBDA f :
                      matches_pattern(f, include) /\ ~matches_pattern(f, exclude)),
     out_of_scope |-> SelectSeq(changed, LAMBDA f :
                      ~(matches_pattern(f, include) /\ ~matches_pattern(f, exclude)))]

\* check_forbidden_files(changed_files, forbid_patterns)
check_forbidden_files(changed, forbid) ==
    IF forbid = {} THEN <<>>
    ELSE SelectSeq(changed, LAMBDA f : matches_pattern(f, forbid))

\* is_legitimate_change(file_path), which is_legitimate_change_with_context
\* consults first and whose verdict it keeps for every path of the model
is_legitimate_change(f) == f \in {"src/app.py", "README.md"}

\* "Forbidden files changed (these require a separate phase):" and its "  - f"
ForbiddenIssue(f) == <<"Forbidden files changed", f>>

\* "Out-of-scope changes detected (...)" / "Plan drift detected: ..." /
\* "OUT OF SCOPE CHANGES DETECTED"
DriftIssue == <<"Out-of-scope changes detected", "drift">>

ForbiddenIssues(forbidden) == [i \in DOMAIN forbidden |-> ForbiddenIssue(forbidden[i])]

\* `if not drift_gate`: a missing entry and {} are both falsy
DriftTruthy(cfg) == cfg.drift \notin {"absent", "empty"}

\* check_drift of tools/judge.py on the value it binds to changed_files
check_drift(cfg, changed) ==
    IF ~DriftTruthy(cfg) THEN <<>>
    ELSE IF changed = <<>> THEN <<>>
    ELSE IF cfg.include = {} THEN <<>>
    ELSE LET outer_files == classify_files(changed, cfg.include, cfg.exclude).out_of_scope
             forbidden_files == check_forbidden_files(changed, cfg.forbid)
             rogue_changes == SelectSeq(outer_files, LAMBDA f : ~is_legitimate_change(f))
         IN ForbiddenIssues(forbidden_files)
              \o (IF Len(rogue_changes) > cfg.allowed THEN <<DriftIssue>> ELSE <<>>)

\* check_drift of tools-v1-backup/lib/gates.py
V1check_drift(cfg, changed) ==
    IF ~DriftTruthy(cfg) THEN <<>>
    ELSE IF changed = <<>> THEN <<>>
    ELSE LET out_of_scope == classify_files(changed, cfg.include, cfg.exclude).out_of_scope
         IN IF Len(out_of_scope) > cfg.allowed THEN <<DriftIssue>> ELSE <<>>

\* check_scope of v2/tools/lib/gates.py; justified is has_scope_justification
check_scope(cfg, changed, justified) ==
    IF ~DriftTruthy(cfg) THEN <<>>
    ELSE IF changed = <<>> THEN <<>>
    ELSE IF cfg.include = {} THEN <<>>
    ELSE IF classify_files(changed, cfg.include, cfg.exclude).out_of_scope = <<>> THEN <<>>
    ELSE IF justified THEN <<>>
    ELSE <<DriftIssue>>

\* mutant: the drift gate is enabled for every phase
DriftGate_is_enabled_Always(cfg) == TRUE

\* DriftGate.is_enabled: phase.get("gates", {}).get("drift", {}).get("enabled", False)
DriftGate_is_enabled(cfg) == cfg.drift = "enabled"

ScopeFrame ==
    UNCHANGED <<lockVars, pc, phase_id, verdict, files, orphans, tmp_path, faults,
                had, writeVars, envVars, binding_issues, lock_issues, verified>>

\* judge_phase of tools/judge.py from "Get changed files for docs and drift
\* gates" to gate_results["drift"]: the list get_changed_files returns is
\* unpacked into two names, which raises ValueError unless it has exactly two
\* entries and otherwise binds changed_files to one path, a str
Judge_check_drift(p) ==
    /\ pc[p] = "idle"
    /\ entry' = [entry EXCEPT ![p] = "tools"]
    /\ LET listed == SeqRange(phase_cfg.changed) IN
         IF Cardinality(listed) # 2
         THEN /\ raised' = {"docs"}
              /\ rc' = [rc EXCEPT ![p] = <<2>>]
              /\ gate_results' = <<>>
              /\ issues' = <<>>
              /\ checks' = <<>>
         ELSE \E first \in listed :
                /\ raised' = {}
                /\ rc' = [rc EXCEPT ![p] = <<>>]
                /\ issues' = check_drift(phase_cfg, Chars(first))
                /\ gate_results' = [g \in {"drift"} |-> issues']
                /\ checks' = IF DriftTruthy(phase_cfg) THEN <<"drift">> ELSE <<>>
    /\ ScopeFrame

\* run_gates of tools-v1-backup/lib/gate_interface.py at the DriftGate
DriftGate_run(p) ==
    /\ pc[p] = "idle"
    /\ entry' = [entry EXCEPT ![p] = "v1"]
    /\ raised' = {}
    /\ rc' = [rc EXCEPT ![p] = <<>>]
    /\ IF DriftGate_is_enabled(phase_cfg)
       THEN /\ issues' = V1check_drift(phase_cfg, Sorted(SeqRange(phase_cfg.changed)))
            /\ gate_results' = [g \in {"drift"} |-> issues']
            /\ checks' = <<"drift">>
       ELSE /\ issues' = <<>>
            /\ gate_results' = <<>>
            /\ checks' = <<>>
    /\ ScopeFrame

\* judge_phase of v2/tools/judge.py at "Gate 5: Scope"
V2_check_scope(p) ==
    /\ pc[p] = "idle"
    /\ entry' = [entry EXCEPT ![p] = "v2"]
    /\ raised' = {}
    /\ rc' = [rc EXCEPT ![p] = <<>>]
    /\ IF DriftTruthy(phase_cfg)
       THEN /\ \E justified \in BOOLEAN :
                 issues' = check_scope(phase_cfg, Sorted(SeqRange(phase_cfg.changed)),
                                       justified)
            /\ gate_results' = [g \in {"scope"} |-> issues']
            /\ checks' = <<"drift">>
       ELSE /\ issues' = <<>>
            /\ gate_results' = <<>>
            /\ checks' = <<>>
    /\ ScopeFrame

\* the phases and change lists the scope functions are applied to
ScopeInputs ==
    {c \in [drift : DriftConfigs, allowed : 0..MaxAllowed, include : SUBSET Patterns,
            exclude : SUBSET {"*.py", "*.md"}, forbid : SUBSET {"src/**", "*.md"},
            changed : UNION {[1..n -> ScopePaths] : n \in 0..MaxChanged},
            llm_enabled : {FALSE}, llm_dep : {"ok"}] :
        c.drift \in {"absent", "empty"} => c.allowed = 0}

InitScope ==
    /\ platform = "fcntl"
    /\ ProcsIdle
    /\ RunLocalsEmpty
    /\ plan_yaml = "locked"
    /\ manifest_json = "m_full"
    /\ judge_py = "j1"
    /\ lib_py = "l1"
    /\ current_json = NoPointer
    /\ state_json = NoPointer
    /\ changed_files = {}
    /\ phase_cfg \in ScopeInputs
    /\ files = {}
    /\ had = [ph \in Phases |-> FALSE]
    /\ WriteIdle

NextScope ==
    \E p \in {1} :
        \/ Judge_check_drift(p)
        \/ DriftGate_run(p)
        \/ V2_check_scope(p)

SpecScope == InitScope /\ [][NextScope]_vars

----------------------------------------------------------------------------
(* The LLM review gate of the three judges *)

\* what the review needs: the llm_judge module, the anthropic package and
\* ANTHROPIC_API_KEY; "ok" when all are there
LlmDeps == {"ok", "no_module", "no_package", "no_key"}

\* "LLM review enabled but llm_judge not available" / "... ANTHROPIC_API_KEY not
\* set ..." / "... anthropic package not installed ..."
LlmUnavailable == <<"LLM review enabled but unavailable", "llm_review">>

\* llm_code_review of tools/llm_judge.py up to the review itself; finding is
\* whether the review, once it runs, reports something
llm_code_review(cfg, finding) ==
    IF ~cfg.llm_enabled THEN <<>>
    ELSE IF cfg.llm_dep = "no_key" THEN <<LlmUnavailable>>
    ELSE IF cfg.llm_dep = "no_package" THEN <<LlmUnavailable>>
    ELSE IF finding THEN <<GateIssue("llm_review")>> ELSE <<>>

\* what the gates before the LLM review left in all_issues
EarlierIssues == {<<>>, <<GateIssue("tests")>>}

\* all_issues.extend(llm_issues); if all_issues: ... return 1 else: ... return 0
LlmVerdict(p, earlier, llm) ==
    /\ issues' = earlier \o llm
    /\ verdict' = [verdict EXCEPT ![p] = IF issues' # <<>> THEN "reject" ELSE "approve"]
    /\ rc' = [rc EXCEPT ![p] = IF issues' # <<>> THEN <<1>> ELSE <<0>>]

LlmFrame ==
    UNCHANGED <<lockVars, pc, phase_id, files, orphans, tmp_path, faults, had,
                writeVars, envVars, binding_issues, lock_issues, verified, checks>>

\* judge_phase of tools/judge.py from the changed-file list to the verdict:
\* the review is run only `if LLM_JUDGE_AVAILABLE`, the flag the import of
\* llm_judge at module load sets; no else branch reports a missing module
Judge_llm_review(p) ==
    /\ pc[p] = "idle"
    /\ entry' = [entry EXCEPT ![p] = "tools"]
    /\ IF Cardinality(SeqRange(phase_cfg.changed)) # 2
       THEN /\ raised' = {"docs"}
            /\ rc' = [rc EXCEPT ![p] = <<2>>]
            /\ verdict' = [verdict EXCEPT ![p] = "none"]
            /\ gate_results' = <<>>
            /\ issues' = <<>>
       ELSE \E earlier \in EarlierIssues, finding \in BOOLEAN :
              /\ raised' = {}
              /\ IF phase_cfg.llm_dep # "no_module" /\ phase_cfg.llm_enabled
                 THEN /\ gate_results' = [g \in {"llm_review"} |->
                                            llm_code_review(phase_cfg, finding)]
                      /\ LlmVerdict(p, earlier, gate_results'["llm_review"])
                 ELSE /\ gate_results' = [g \in {"drift"} |-> <<>>]
                      /\ LlmVerdict(p, earlier, <<>>)
    /\ LlmFrame

\* run_gates of tools-v1-backup at the LLMReviewGate, up to the verdict of
\* judge_phase: `except ImportError` turns a missing llm_judge into an issue
LLMReviewGate_run(p) ==
    /\ pc[p] = "idle"
    /\ entry' = [entry EXCEPT ![p] = "v1"]
    /\ raised' = {}
    /\ \E earlier \in EarlierIssues, finding \in BOOLEAN :
         IF phase_cfg.llm_enabled
         THEN /\ gate_results' = [g \in {"llm_review"} |->
                                    IF phase_cfg.llm_dep = "no_module"
                                    THEN <<LlmUnavailable>>
                                    ELSE llm_code_review(phase_cfg, finding)]
              /\ LlmVerdict(p, earlier, gate_results'["llm_review"])
         ELSE /\ gate_results' = <<>>
              /\ LlmVerdict(p, earlier, <<>>)
    /\ LlmFrame

\* check_llm_review of v2/tools/lib/gates.py and the verdict of v2 judge_phase
V2_check_llm_review(p) ==
    /\ pc[p] = "idle"
    /\ entry' = [entry EXCEPT ![p] = "v2"]
    /\ raised' = {}
    /\ \E earlier \in EarlierIssues, finding \in BOOLEAN :
         IF phase_cfg.llm_enabled
         THEN /\ gate_results' = [g \in {"llm_review"} |->
                                    IF phase_cfg.llm_dep = "no_key"
                                    THEN <<LlmUnavailable>>
                                    ELSE IF finding THEN <<GateIssue("llm_review")>>
                                    ELSE <<>>]
              /\ LlmVerdict(p, earlier, gate_results'["llm_review"])
         ELSE /\ gate_results' = <<>>
              /\ LlmVerdict(p, earlier, <<>>)
    /\ LlmFrame

\* phases with and without LLM review, with each dependency missing in turn
LlmInputs ==
    [drift : {"absent"}, allowed : {0}, include : {{}}, exclude : {{}}, forbid : {{}},
     changed : UNION {[1..n -> ScopePaths] : n \in 0..MaxChanged},
     llm_enabled : BOOLEAN, llm_dep : LlmDeps]

InitLlm ==
    /\ platform = "fcntl"
    /\ ProcsIdle
    /\ RunLocalsEmpty
    /\ plan_yaml = "locked"
    /\ manifest_json = "m_full"
    /\ judge_py = "j1"
    /\ lib_py = "l1"
    /\ current_json = NoPointer
    /\ state_json = NoPointer
    /\ changed_files = {}
    /\ phase_cfg \in LlmInputs
    /\ files = {}
    /\ had = [ph \in Phases |-> FALSE]
    /\ WriteIdle

NextLlm ==
    \E p \in {1} :
        \/ Judge_llm_review(p)
        \/ LLMReviewGate_run(p)
        \/ V2_check_llm_review(p)

SpecLlm == InitLlm /\ [][NextLlm]_vars

----------------------------------------------------------------------------
(* Reads of stored records: safe_read_json, get_current_phase and the phase
   context *)

\* operating modes of a phase context; a fresh context is in the first
Modes == {"EXPLORE", "LOCK"}

\* what a target file may hold when it is read: nothing, JSON, other bytes
ReadContents == {"absent", "d1", "garbage"}

\* the file of the context of phase ph, kept among the files of the workspace
ContextFile(ph) == <<ph, "ctx.json">>

ReadFrame ==
    UNCHANGED <<platform, lockPath, flockHolder, fd, polls, lock_acquired, pc, entry,
                rc, phase_id, orphans, tmp_path, faults, verdict, had, target_file,
                temp_path, before, judgeVars>>

\* safe_read_json(file_path): FileNotFoundError when the file does not exist,
\* json.JSONDecodeError when it holds no JSON, else the dictionary
safe_read_json(p) ==
    /\ \A q \in Procs : pc[q] = "idle"
    /\ loaded' = [loaded EXCEPT ![p] =
                    [by |-> "safe_read_json",
                     was |-> CASE target_file = "absent" -> "absent"
                               [] target_file = "garbage" -> "malformed"
                               [] OTHER -> "ok",
                     value |-> IF target_file \in {"absent", "garbage"} THEN <<>>
                               ELSE <<target_file>>]]
    /\ exc' = [exc EXCEPT ![p] =
                 CASE target_file = "absent" -> "FileNotFoundError"
                   [] target_file = "garbage" -> "JSONDecodeError"
                   [] OTHER -> "none"]
    /\ files' = files
    /\ ReadFrame

\* mutant: the pointer file is read without the exists() test and the except
get_current_phase_Unchecked(p) ==
    /\ \A q \in Procs : pc[q] = "idle"
    /\ loaded' = [loaded EXCEPT ![p] =
                    [by |-> "get_current_phase", was |-> state_json.state,
                     value |-> IF state_json.state = "ok"
                               THEN <<state_json.phase_id>> ELSE <<>>]]
    /\ exc' = [exc EXCEPT ![p] =
                 CASE state_json.state = "absent" -> "FileNotFoundError"
                   [] state_json.state = "malformed" -> "JSONDecodeError"
                   [] OTHER -> "none"]
    /\ files' = files
    /\ ReadFrame

\* get_current_phase(repo_root): None when .repo/state/current.json is missing
\* or unreadable, else its content
get_current_phase(p) ==
    /\ \A q \in Procs : pc[q] = "idle"
    /\ loaded' = [loaded EXCEPT ![p] =
                    [by |-> "get_current_phase", was |-> state_json.state,
                     value |-> IF state_json.state = "ok"
                               THEN <<state_json.phase_id>> ELSE <<"None">>]]
    /\ exc' = [exc EXCEPT ![p] = "none"]
    /\ files' = files
    /\ ReadFrame

\* load_phase_context(phase_id, repo_root): the stored context of the phase,
\* or a context made of the phase id and the default mode
load_phase_context(p) ==
    /\ \A q \in Procs : pc[q] = "idle"
    /\ \E ph \in Phases, mode \in Modes :
         /\ ContextFile(ph) \notin files => mode = "EXPLORE"
         /\ loaded' = [loaded EXCEPT ![p] =
                         [by |-> "load_phase_context",
                          was |-> IF ContextFile(ph) \in files THEN "ok" ELSE "absent",
                          value |-> <<ph, mode>>]]
    /\ exc' = [exc EXCEPT ![p] = "none"]
    /\ files' = files
    /\ ReadFrame

\* save_phase_context(phase_id, context, repo_root)
save_phase_context(p) ==
    /\ \A q \in Procs : pc[q] = "idle"
    /\ \E ph \in Phases : files' = files \cup {ContextFile(ph)}
    /\ UNCHANGED <<loaded, exc>>
    /\ ReadFrame

InitRead ==
    /\ platform = "fcntl"
    /\ ProcsIdle
    /\ RunLocalsEmpty
    /\ plan_yaml = "locked"
    /\ manifest_json = "m_full"
    /\ judge_py = "j1"
    /\ lib_py = "l1"
    /\ current_json = NoPointer
    /\ state_json \in {q \in Pointers : q.plan_sha \in {<<>>, sha256("locked")}}
    /\ changed_files = {}
    /\ phase_cfg = NoScope
    /\ files = {}
    /\ had = [ph \in Phases |-> FALSE]
    /\ target_file \in ReadContents
    /\ temp_path = [p \in Procs |-> "none"]
    /\ before = "absent"
    /\ loaded = [p \in Procs |-> NoRead]

NextRead ==
    \E p \in Procs :
        \/ safe_read_json(p)
        \/ get_current_phase(p)
        \/ load_phase_context(p)
        \/ save_phase_context(p)

SpecRead == InitRead /\ [][NextRead]_vars

----------------------------------------------------------------------------
(* Claims *)

\* A process is inside the guarded scope having acquired the lock.
HoldsLock(p) == pc[p] = "judging" /\ lock_acquired[p]

\* C1: two processes that acquired the lock on the same lock file are never
\* both inside the guarded scope, under every interleaving of acquire,
\* timeout and release.
C1_LockMutualExclusion ==
    \A p, q \in Procs : (p # q /\ HoldsLock(p)) => ~HoldsLock(q)

\* C2: at most one judge evaluation (judge_phase) is in progress in the
\* workspace at any time, whichever entry points the judges were started at.
C2_AtMostOneJudge ==
    \A p, q \in Procs : (p # q /\ pc[p] = "judging") => pc[q] # "judging"

----------------------------------------------------------------------------
(* Claims about the verdict writers, under SpecVerdict *)

BothMarkers(ph) == ApprovalMarker(ph) /\ RejectionMarker(ph)

\* A call for ph has written its marker and not yet deleted the opposite one.
InWindow(ph) ==
    \E p \in Procs :
        /\ phase_id[p] = ph
        /\ pc[p] \in {"wc_tmp_json", "wc_replace_json", "wc_unlink_ok",
                      "wa_tmp_ok_json", "wa_replace_ok_json", "wa_unlink_md",
                      "v2c_unlink_ok", "v2a_unlink_md"}

C4_CrashKeepsVerdict ==
    [][\A p \in Procs :
          (pc[p] \in WriterPcs /\ pc'[p] = "idle" /\ had[phase_id[p]])
              => (<<phase_id[p], "OK">> \in files'
                    \/ <<phase_id[p], "md">> \in files')]_vars

\* a write_critique over an approved phase was interrupted after the critique
\* was written and before the approval was deleted
C4_Witness ==
    \E p \in Procs :
        /\ pc[p] = "idle" /\ rc[p] = <<2>> /\ faults > 0
        /\ BothMarkers(phase_id[p])

\* C5: after write_approval(phase) returns no rejection marker file exists
\* for that phase, and after write_critique(phase, ...) returns no approval
\* marker file exists for that phase.
C5_OppositeRetracted ==
    \A p \in Procs :
        pc[p] = "written" =>
            IF verdict[p] = "approve"
            THEN /\ <<phase_id[p], "md">> \notin files
                 /\ <<phase_id[p], "json">> \notin files
            ELSE /\ <<phase_id[p], "OK">> \notin files
                 /\ <<phase_id[p], "OK.json">> \notin files

\* write_approval has returned for a phase that has had a verdict marker
C5_Witness ==
    \E p \in Procs :
        /\ pc[p] = "written" /\ verdict[p] = "approve"
        /\ ApprovalMarker(phase_id[p])
        /\ faults = 0
        /\ had[phase_id[p]]

\* The judge's source differs from the hash the manifest records for it.
JudgeDiffersFromManifest ==
    /\ manifest_json # "absent"
    /\ JudgeRel \in DOMAIN ManifestFiles(manifest_json)
    /\ sha256(judge_py) # ManifestFiles(manifest_json)[JudgeRel]

\* The run of p has got past loading the plan and finding its phase.
PastPlan(p) == pc[p] \notin {"idle", "jp_validate"}

\* The run of p has ended and left its exit status.
Ended(p) == pc[p] = "idle" /\ rc[p] # <<>>

\* C6: when the judge's source hash differs from its manifest entry, the run
\* reports exactly the tamper issue and invokes no gate, whatever the other
\* checks would report.
C6_TamperIsTheOnlyIssue ==
    \A p \in {1} :
        JudgeDiffersFromManifest /\ PastPlan(p) =>
            /\ gate_results = <<>>
            /\ issues \in {<<>>, <<JudgeTamper>>}
            /\ pc[p] = "written" => issues = <<JudgeTamper>>

\* the positions of check c in the sequence of checks performed
Pos(c) == {i \in DOMAIN checks : checks[i] = c}

\* C7: the integrity checks run in the order judge self-integrity, manifest
\* verification, phase binding, and all three are done before any gate runs.
C7_SelfManifestBindingOrder ==
    /\ \A i \in Pos("self"), j \in Pos("manifest") : i < j
    /\ \A i \in Pos("manifest"), j \in Pos("binding") : i < j
    /\ \A i \in Pos("self"), j \in Pos("binding") : i < j
    /\ gate_results # <<>> =>
          Pos("self") # {} /\ Pos("manifest") # {} /\ Pos("binding") # {}

\* C8: a run whose integrity checks fail runs no gate and rejects: it hands
\* the integrity issues to write_critique and exits 1, never approving.
C8_IntegrityFailureRejects ==
    \A p \in {1} :
        binding_issues # <<>> \/ lock_issues # <<>> =>
            /\ gate_results = <<>>
            /\ issues \in {binding_issues, lock_issues} /\ issues # <<>>
            /\ \/ pc[p] \in WriterPcs \cup {"written"} /\ verdict[p] = "reject"
               \/ pc[p] = "idle" /\ rc[p] = <<1>>
            /\ pc[p] \in {"written", "idle"} => RejectionMarker(phase_id[p])
            /\ ~ApprovalMarker(phase_id[p])

\* a run has found a modified protocol file, rejected and exited 1
C8_Witness ==
    \E p \in {1} :
        /\ Ended(p) /\ rc[p] = <<1>>
        /\ lock_issues = <<<<"Protocol file modified", LibRel>>>>
        /\ gate_results = <<>>
        /\ RejectionMarker(phase_id[p])

\* The plan or manifest hash recorded at phase start differs from the file.
BindingMismatch ==
    /\ current_json.state = "ok"
    /\ \/ current_json.plan_sha \notin {<<>>, sha256(plan_yaml)}
       \/ current_json.manifest_sha \notin {<<>>, sha256(manifest_json)}

GatesRun == gate_results # <<>>

MandatoryGates(e) ==
    CASE e = "v1" -> {"artifacts", "tests", "docs", "integrity"}
      [] e = "v2" -> {"artifacts", "tests", "docs", "orient"}
      [] OTHER -> Gates \ OptionalGates

\* C11: when a gate's run raises, every other enabled gate still has its
\* result in the result map and the faulting gate's entry is exactly the one
\* issue "Gate <name> failed: <message>".
C11_FaultingGateIsolated ==
    \A p \in {1} :
        raised # {} =>
            /\ MandatoryGates(entry[p]) \subseteq DOMAIN gate_results
            /\ \A g \in raised :
                  g \in DOMAIN gate_results /\ gate_results[g] = <<GateFailed(g)>>

\* at least one gate reported at least one issue
AnyGateIssue == \E g \in DOMAIN gate_results : gate_results[g] # <<>>

\* C12: once the gates have been evaluated the judge writes a rejection if at
\* least one gate reported an issue and an approval otherwise, and returns 1
\* or 0 accordingly.
C12_VerdictIffIssues ==
    \A p \in {1} :
        pc[p] = "written" \/ (Ended(p) /\ rc[p] # <<2>>) =>
            IF AnyGateIssue
            THEN /\ RejectionMarker(phase_id[p]) /\ ~ApprovalMarker(phase_id[p])
                 /\ Ended(p) => rc[p] = <<1>>
            ELSE /\ ApprovalMarker(phase_id[p]) /\ ~RejectionMarker(phase_id[p])
                 /\ Ended(p) => rc[p] = <<0>>

\* a run whose only issue came from an optional gate has rejected a phase
\* that an earlier run approved
C12_Witness ==
    \E p \in {1} :
        /\ Ended(p) /\ rc[p] = <<1>>
        /\ "lint" \in DOMAIN gate_results
        /\ \A g \in DOMAIN gate_results : gate_results[g] # <<>> <=> g = "lint"
        /\ RejectionMarker(phase_id[p])
        /\ had[phase_id[p]]

C14_PointerMovesOnlyOnApproval ==
    [][(/\ current_json.state = "ok" /\ current_json'.state = "ok"
        /\ current_json'.phase_id # current_json.phase_id)
          => ApprovalMarker(current_json.phase_id)]_vars

\* C15: every write of a phase pointer is made by a process that holds the
\* lock at the time of the write.
C15_PointerWritersHoldLock ==
    [][current_json' # current_json \/ state_json' # state_json
          => \E p \in Procs : HoldsLock(p)]_vars

\* C20: every pointer of an open phase holds both the plan hash and the
\* manifest hash.
C20_PointerHoldsBothHashes ==
    \A ptr \in {current_json, state_json} :
        ptr.state = "ok" => ptr.plan_sha # <<>> /\ ptr.manifest_sha # <<>>

\* C16: when a guarded scope has ended, by return or by exception, its
\* process holds no lock and no descriptor of the lock file; with no run in
\* progress no lock is held and the exclusive-create lock file is gone, so a
\* later acquisition succeeds.
C16_LockReleasedAtScopeEnd ==
    /\ \A p \in Procs :
          pc[p] = "idle" =>
              /\ fd[p] = NoFile
              /\ \A i \in Inodes : p \notin flockHolder[i]
    /\ (\A p \in Procs : pc[p] = "idle") =>
          /\ \A i \in Inodes : flockHolder[i] = {}
          /\ platform = "nofcntl" => lockPath = NoFile

\* a run that held the lock has ended with status 2 and another process has
\* acquired the lock since
C16_Witness ==
    \E p, q \in Procs :
        /\ p # q
        /\ pc[p] = "idle" /\ lock_acquired[p] /\ rc[p] = <<2>>
        /\ entry[p] # "v2" /\ entry[q] # "v2"
        /\ HoldsLock(q)

\* C17: an acquisition whose timeout elapses leaves file_lock with a
\* TimeoutError, the only way an invocation ends without having acquired the
\* lock, and that invocation never holds the lock nor stands in the guarded
\* scope; any failure after the lock was taken is of another class.
C17_TimeoutIsDistinctAndOutsideScope ==
    \A p \in Procs :
        /\ exc[p] = "TimeoutError" =>
              /\ ~lock_acquired[p]
              /\ pc[p] # "judging"
              /\ polls[p] >= MaxPolls
              /\ rc[p] = <<2>>
        /\ (entry[p] # "v2" /\ rc[p] # <<>> /\ ~lock_acquired[p]) =>
              exc[p] = "TimeoutError"

\* one invocation has ended on a lock timeout and another on an exception
\* raised inside the guarded scope
C17_Witness ==
    \E p, q \in Procs :
        /\ pc[p] = "idle" /\ exc[p] = "TimeoutError" /\ rc[p] = <<2>>
        /\ pc[q] = "idle" /\ exc[q] = "Exception" /\ lock_acquired[q]

\* C18: a safe_write_json call that ends without having returned, at any step
\* up to and including a failing os.replace, leaves the target with exactly
\* the content (or absence) it had when the call began.
C18_FailedWriteKeepsTarget ==
    [][\A p \in Procs :
          (pc[p] \in SafeWritePcs /\ pc'[p] = "idle" /\ rc'[p] # <<0>>)
              => target_file' = before]_vars

\* a call was stopped after its temporary file held all of the new data, over
\* a target with other content, and the target still has that content
C18_Witness ==
    \E data \in WriteData :
        /\ \A p \in Procs : pc[p] = "idle"
        /\ orphans = {<<"json", data>>}
        /\ target_file \in WriteData \ {data}
        /\ target_file = before

\* C19: once a verdict write has failed before its rename, no temporary file
\* of it is left in the critiques directory.
C19_FailedWriteLeavesNoTemp ==
    (\A p \in Procs : pc[p] = "idle") => orphans = {}

\* C21: while the pointer keeps naming the same phase, the baseline_sha it
\* records does not change.
C21_BaselineFixedWhilePhaseCurrent ==
    [][(/\ current_json.state = "ok" /\ current_json'.state = "ok"
        /\ current_json'.phase_id = current_json.phase_id)
          => current_json'.baseline_sha = current_json.baseline_sha]_vars

\* C22: with both the approval and the rejection marker of a phase present,
\* review reports the phase approved (exit status 0) and next passes its
\* approval check.
C22_ApprovalWinsWhenBothPresent ==
    [][\A p \in Procs :
          /\ (pc[p] = "review_report" /\ pc'[p] = "idle"
                 /\ BothMarkers(phase_id[p])) => rc'[p] = <<0>>
          /\ (pc[p] = "next_approval" /\ pc'[p] # "next_approval"
                 /\ current_json.state = "ok"
                 /\ BothMarkers(current_json.phase_id))
                => pc'[p] = "next_advance"]_vars

\* next has passed its approval check on a phase that has both markers
C22_Witness ==
    \E p \in Procs :
        /\ pc[p] = "next_advance"
        /\ current_json.state = "ok"
        /\ BothMarkers(current_json.phase_id)

\* the marker files a completed write_approval / write_critique is to leave
VerdictMarkers(e, ph, v) ==
    IF v = "approve"
    THEN IF e = "v2" THEN {<<ph, "OK">>} ELSE {<<ph, "OK">>, <<ph, "OK.json">>}
    ELSE IF e = "v2" THEN {<<ph, "md">>} ELSE {<<ph, "md">>, <<ph, "json">>}

MarkersOf(fs, ph) == {f \in fs : f[1] = ph}

\* C23: a completed verdict write leaves exactly the marker files of its
\* verdict, and a call that starts on the marker files an identical call left
\* keeps that set at every step; so two calls in a row leave what one leaves.
C23_RepeatedWriteSameMarkers ==
    [][\A p \in Procs :
          /\ (pc'[p] = "written") =>
                MarkersOf(files', phase_id'[p])
                    = VerdictMarkers(entry'[p], phase_id'[p], verdict'[p])
          /\ (/\ pc[p] \in WriterPcs
              /\ MarkersOf(files, phase_id[p])
                    = VerdictMarkers(entry[p], phase_id[p], verdict[p]))
                => MarkersOf(files', phase_id[p])
                    = VerdictMarkers(entry[p], phase_id[p], verdict[p])]_vars

\* a call has run to its end, uninterrupted, on a phase that already held
\* markers before it and holds exactly the markers of this call's verdict
C23_Witness ==
    \E p \in Procs :
        /\ pc[p] = "written" /\ faults = 0
        /\ had[phase_id[p]]
        /\ \A ph \in Phases \ {phase_id[p]} : MarkersOf(files, ph) = {}
        /\ rc[p] = <<>>
        /\ MarkersOf(files, phase_id[p])
              = VerdictMarkers(entry[p], phase_id[p], verdict[p])

\* a drift gate has been run on the phase of phase_cfg
ScopeActed == entry[1] # "tools" \/ gate_results # <<>> \/ raised # {}

\* the list get_changed_files reports for the changed paths
GitList == Sorted(SeqRange(phase_cfg.changed))

\* C24: once the drift gate of tools/judge.py has run for a phase with a drift
\* configuration, every changed path that matches a forbidden pattern has its
\* forbidden-change issue among the issues, whatever the include and exclude
\* sets and whatever the classification of the path.
C24_ForbiddenAlwaysReported ==
    (entry[1] = "tools" /\ "drift" \in DOMAIN gate_results /\ DriftTruthy(phase_cfg))
      => \A f \in SeqRange(phase_cfg.changed) :
            matches_pattern(f, phase_cfg.forbid)
              => ForbiddenIssue(f) \in SeqRange(issues)

\* the lists the gates hand to classify_files
ClassifyInputs ==
    {phase_cfg.changed, GitList} \cup {Chars(f) : f \in SeqRange(phase_cfg.changed)}

\* C25: classify_files partitions its input: every path of the input is in
\* exactly one of in_scope and out_of_scope, and nothing else is in either.
C25_ClassifyPartitions ==
    \A changed \in ClassifyInputs :
        LET c == classify_files(changed, phase_cfg.include, phase_cfg.exclude) IN
          /\ SeqRange(c.in_scope) \cup SeqRange(c.out_of_scope) = SeqRange(changed)
          /\ SeqRange(c.in_scope) \cap SeqRange(c.out_of_scope) = {}
          /\ Len(c.in_scope) + Len(c.out_of_scope) = Len(changed)

\* the v1 gate has classified a change list into two non-empty parts, one
\* path being both included and excluded
C25_Witness ==
    /\ entry[1] = "v1"
    /\ checks = <<"drift">>
    /\ LET c == classify_files(GitList, phase_cfg.include, phase_cfg.exclude) IN
         /\ c.in_scope # <<>>
         /\ \E f \in SeqRange(c.out_of_scope) :
               matches_pattern(f, phase_cfg.include) /\ matches_pattern(f, phase_cfg.exclude)

\* C26: classify_files puts a path in scope exactly when it matches at least
\* one include pattern and no exclude pattern; a path matching both is out of
\* scope, and with no include pattern every path is out of scope.
C26_InScopeIffIncludedNotExcluded ==
    \A changed \in ClassifyInputs :
        LET c == classify_files(changed, phase_cfg.include, phase_cfg.exclude) IN
          /\ \A f \in SeqRange(changed) :
                f \in SeqRange(c.in_scope)
                  <=> /\ \E pat \in phase_cfg.include : f \in MatchSet(pat)
                      /\ ~ \E pat \in phase_cfg.exclude : f \in MatchSet(pat)
          /\ phase_cfg.include = {} => c.in_scope = <<>> /\ c.out_of_scope = changed

\* the v1 gate reported drift for a single changed path that is both included
\* and excluded
C26_Witness ==
    /\ entry[1] = "v1"
    /\ checks = <<"drift">>
    /\ DriftIssue \in SeqRange(issues)
    /\ Len(GitList) = 1
    /\ matches_pattern(GitList[1], phase_cfg.include)
    /\ matches_pattern(GitList[1], phase_cfg.exclude)

\* C27: when the drift gate of tools/judge.py or of tools-v1-backup has run,
\* it reports a drift issue exactly when the number of changed paths that are
\* out of scope exceeds allowed_out_of_scope_changes, whether or not a
\* forbidden-change issue is reported as well.
C27_DriftIssueIffOverAllowance ==
    (entry[1] \in {"tools", "v1"} /\ "drift" \in DOMAIN gate_results
        /\ DriftTruthy(phase_cfg))
      => (DriftIssue \in SeqRange(issues)
            <=> Len(classify_files(GitList, phase_cfg.include,
                                   phase_cfg.exclude).out_of_scope) > phase_cfg.allowed)

\* C28: a drift gate that has been asked to judge a phase runs its check
\* exactly when the phase has a gates.drift entry.
C28_DriftRunsIffDeclared ==
    ScopeActed => (checks = <<"drift">> <=> phase_cfg.drift # "absent")

C30_ProtectedChangesReported ==
    \A p \in {1} :
        (/\ entry[p] = "tools"
         /\ "manifest" \in SeqRange(checks)
         /\ ManifestLoopRuns(plan_yaml, phase_id[p]))
          => \A f \in changed_files :
                (Protected(f) /\ f \notin DOMAIN ManifestFiles(manifest_json))
                  => ProtectedChanged(f) \in SeqRange(lock_issues)

\* a judge has gone through the LLM review gate of the phase of phase_cfg
LlmActed == entry[1] # "tools" \/ gate_results # <<>> \/ raised # {}

\* C31: when LLM review is enabled for a phase and one of its dependencies is
\* missing, a judge run that has passed the gate did not crash, carries the
\* "enabled but unavailable" issue under llm_review and has not approved.
C31_UnavailableReviewReported ==
    (LlmActed /\ phase_cfg.llm_enabled /\ phase_cfg.llm_dep # "ok")
      => /\ raised = {}
         /\ "llm_review" \in DOMAIN gate_results
         /\ LlmUnavailable \in SeqRange(gate_results["llm_review"])
         /\ verdict[1] # "approve"

\* C32: a judge run ends with exit status 0 exactly when it has written an
\* approval and with 1 exactly when it has written a rejection; every other
\* end is status 2.
C32_ExitCodeTellsVerdict ==
    [][\A p \in {1} :
          (rc'[p] # rc[p] /\ rc'[p] # <<>>) =>
              /\ rc'[p] = <<0>> <=> (pc[p] = "written" /\ verdict[p] = "approve")
              /\ rc'[p] = <<1>> <=> (pc[p] = "written" /\ verdict[p] = "reject")
              /\ rc'[p] \in {<<0>>, <<1>>, <<2>>}]_vars

C34_OnlyHolderTouchesLockFile ==
    [][\A p \in Procs :
          (/\ pc'[p] # pc[p]
           /\ \/ (lockPath # NoFile /\ lockPath' # lockPath)
              \/ \E i \in Inodes : flockHolder[i] \ flockHolder'[i] # {})
            => lock_acquired[p]]_vars

\* C35: review_phase returns 0 only if the judge run it has just made wrote
\* an approval; after a judge run that wrote no verdict it does not report an
\* approval marker left by an earlier run.
C35_ReviewReportsOwnVerdict ==
    [][\A p \in {1} :
          (pc[p] = "review_report" /\ rc'[p] = <<0>>) => verdict[p] = "approve"]_vars

\* C36: the judge writes an approval only after comparing the live plan and
\* manifest hashes with a recorded binding: never when the phase pointer is
\* missing, malformed, or lacks the recorded plan or manifest hash.
C36_ApprovalNeedsBinding ==
    \A p \in {1} :
        (pc[p] = "written" /\ verdict[p] = "approve") =>
            /\ current_json.state = "ok"
            /\ current_json.plan_sha # <<>>
            /\ current_json.manifest_sha # <<>>
            /\ "binding" \in SeqRange(checks)

\* C37: a judge run changes the verdict markers of its phase only when the
\* current-phase pointer names that phase; a run for another phase id ends
\* with the operational-error status and leaves every marker as it was.
C37_VerdictOnlyForCurrentPhase ==
    [][\A p \in {1} :
          /\ MarkersOf(files', phase_id[p]) # MarkersOf(files, phase_id[p]) =>
                /\ current_json.state = "ok"
                /\ current_json.phase_id = phase_id[p]
          /\ (/\ pc[p] # "idle" /\ pc'[p] = "idle"
              /\ ~(current_json.state = "ok" /\ current_json.phase_id = phase_id[p])) =>
                rc'[p] = <<2>>]_vars

\* C38: when verify_protocol_lock runs for a phase on the allow-list, no
\* manifest-listed file is verified, but the judge's self-check is performed
\* whenever the manifest records the judge: a judge that differs from its
\* recorded hash yields exactly the tamper issue and the run rejects.
C38_SelfCheckInMaintenancePhase ==
    [][\A p \in {1} :
          (/\ pc[p] = "jp_lock"
           /\ ProtocolLock(plan_yaml)
           /\ phase_id[p] \in AllowInPhases(plan_yaml)) =>
             /\ verified' = {}
             /\ "manifest" \notin SeqRange(checks')
             /\ (manifest_json # "absent"
                    /\ JudgeRel \in DOMAIN ManifestFiles(manifest_json)) =>
                   "self" \in SeqRange(checks')
             /\ JudgeDiffersFromManifest =>
                   /\ lock_issues' = <<JudgeTamper>>
                   /\ issues' = <<JudgeTamper>>
                   /\ verdict'[p] = "reject"
                   /\ pc'[p] # "jp_gates"]_vars

\* a run for the maintenance phase P2 has rejected a modified judge with the
\* tamper issue, having verified no manifest-listed file
C38_Witness ==
    /\ pc[1] = "written"
    /\ phase_id[1] \in AllowInPhases(plan_yaml)
    /\ JudgeDiffersFromManifest
    /\ issues = <<JudgeTamper>>
    /\ verdict[1] = "reject"
    /\ RejectionMarker(phase_id[1])
    /\ "self" \in SeqRange(checks)
    /\ "manifest" \notin SeqRange(checks)
    /\ verified = {}

\* C39: when a drift gate has run for a phase whose include set is empty,
\* every changed path is out of scope and counts against the allowance: with
\* more changed paths than allowed_out_of_scope_changes the gate reports the
\* drift issue.
C39_EmptyIncludeAllOutOfScope ==
    (ScopeActed /\ checks = <<"drift">> /\ phase_cfg.include = {})
      => /\ classify_files(GitList, phase_cfg.include, phase_cfg.exclude).in_scope = <<>>
         /\ Len(GitList) > phase_cfg.allowed => DriftIssue \in SeqRange(issues)

\* C40: when the is_enabled of a gate raises, the fault is isolated as a fault
\* of run is: the gates that always run still have their results in the
\* result map and the faulting gate's entry is exactly the one issue
\* "Gate <name> failed: <message>".
C40_IsEnabledFaultIsolated ==
    \A g \in V1OptionalGates :
        IsEnabledFault(g) \in raised =>
            /\ MandatoryGates("v1") \subseteq DOMAIN gate_results
            /\ g \in DOMAIN gate_results
            /\ gate_results[g] = <<GateFailed(g)>>

=============================================================================
